---- MODULE Spec2Model ----
(***************************************************************************)
(* Dataset-construction pipeline of PoseRehab:                             *)
(*   scripts/preprocess_fitness_dataset.py  (split_dataset, create_dataset)*)
(*   ml/preprocess.py, ml/preprocess_full.py (2D/3D matching passes)       *)
(* Sizes given as floats in the code (test_size, val_size) are modelled as *)
(* tenths: the integer t stands for the float t/10.                        *)
(***************************************************************************)
EXTENDS Integers, Sequences, FiniteSets, TLC

VARIABLES
    X,              \* split_dataset input: feature rows (row i carries sample id i)
    y_exercise,     \* split_dataset input: class id per row
    y_posture,      \* split_dataset input: 0/1 per row
    metadata,       \* split_dataset input: provenance per row
    test_size,      \* tenths
    val_size,       \* tenths
    random_state,   \* seed passed to split_dataset
    np_random,      \* state of numpy's global generator
    stdout,         \* warning lines printed by split_dataset
    dataset,        \* what the latest split_dataset call returned
    previous,       \* what the call before it returned
    calls,          \* number of split_dataset calls made
    program,        \* the pose script that runs: "process_dataset" (ml/preprocess_full.py)
                    \* or "preprocess_data" (ml/preprocess.py); "none" outside the pose runs
    files_2d,       \* the 2D json files, in listing order
    files_3d,       \* the 3D json files under the 3D root
    next_2d,        \* number of 2D files the loop has consumed
    data_2d,        \* rows appended so far (each remembers its file)
    data_3d,
    matched,        \* matched / matched_count
    skipped_2d,
    skipped_3d_not_found,
    skipped_3d_parse,
    pose_result,    \* "running", then what the pass ended with
    desc,           \* main of ml/preprocess_full.py: the corpus being processed
    val_dirs,       \* the Validation corpus, listed when its pass starts
    train_2d,       \* what process_dataset returned for the Training corpus
    train_3d,
    samples,        \* create_dataset: the parsed SampleData list
    use_all_frames,
    use_all_views,
    next_sample,    \* number of samples the loop has consumed
    X_list,
    y_exercise_list,
    y_posture_list,
    metadata_list,
    skipped_no_view,
    skipped_low_visibility,
    skipped_unknown_type,
    processed,
    created,        \* "running", then "returned"
    all_json_files, \* main of the fitness script: the json files found
    next_json,      \* number of json files the parse loop has consumed
    skipped_3d,
    target_exercises, \* the class list of the run (--exercises or the default)
    keypoint_data,  \* the KeypointData handed to a feature function
    result,         \* the function called on it, its argument and what it gave
    pts,            \* the 'pts' object of a view handed to parse_keypoints_from_pts
    model_type,     \* --model_type of train_posture_classifier.py
    epochs,         \* --epochs
    early_stopping, \* --early_stopping
    history,        \* the validation F1 recorded per epoch run
    best_val_f1,    \* best_val_f1 (best_combined_f1 in the multitask branch)
    patience_counter,
    stopped,        \* the break of the epoch loop was taken
    best_model_pth, \* the checkpoint file in output_dir
    checkpoint,     \* what torch.load returned after the loop
    raised          \* the exception that ended main, "" when none

splitVars == <<X, y_exercise, y_posture, metadata, test_size, val_size,
               random_state, np_random, stdout, dataset, previous, calls>>

mainVars == <<desc, val_dirs, train_2d, train_3d>>

poseVars == <<program, files_2d, files_3d, next_2d, data_2d, data_3d, matched,
              skipped_2d, skipped_3d_not_found, skipped_3d_parse, pose_result,
              mainVars>>

fitVars == <<samples, use_all_frames, use_all_views, next_sample, X_list,
             y_exercise_list, y_posture_list, metadata_list, skipped_no_view,
             skipped_low_visibility, skipped_unknown_type, processed, created>>

trainVars == <<model_type, epochs, early_stopping, history, best_val_f1,
               patience_counter, stopped, best_model_pth, checkpoint, raised>>

unitVars == <<all_json_files, next_json, skipped_3d, target_exercises,
              keypoint_data, result, pts, trainVars>>

vars == <<splitVars, poseVars, fitVars, unitVars>>

(***************************************************************************)
(* Bounds of the model.                                                    *)
(***************************************************************************)
MaxN == 30          \* largest sample count drawn in general position
MaxClasses == 3     \* largest number of exercise classes drawn
MaxRare == 6        \* largest size of the small classes
MaxSeed == 1        \* seeds 0..MaxSeed
MaxFiles2D == 2     \* 2D files in a corpus
MaxFiles3D == 2     \* 3D files in a corpus
MaxSamples == 2     \* samples handed to create_dataset

(***************************************************************************)
(* Small helpers.                                                          *)
(***************************************************************************)
Max(a, b) == IF a >= b THEN a ELSE b
Min(a, b) == IF a <= b THEN a ELSE b
CeilDiv(a, b) == (a + b - 1) \div b
Range(s) == {s[i] : i \in 1..Len(s)}

RECURSIVE SumSeq(_)
SumSeq(s) == IF s = <<>> THEN 0 ELSE Head(s) + SumSeq(Tail(s))

\* Python's a[start:stop] on a sequence of length Len(a): negative bounds count
\* from the end, both bounds are clamped to 0..len.
PyBound(k, len) == IF k < 0 THEN Max(0, len + k) ELSE Min(k, len)
PySlice(a, start, stop) ==
    SubSeq(a, PyBound(start, Len(a)) + 1, PyBound(stop, Len(a)))
PySliceTo(a, stop) == PySlice(a, 0, stop)
PySliceFrom(a, start) == PySlice(a, start, Len(a))

\* a[idx] for an index array idx (numpy fancy indexing / list comprehension).
\* Index arrays hold 1-based positions here.
Take(a, idx) == [p \in 1..Len(idx) |-> a[idx[p]]]

RECURSIVE SortedSeq(_)
SortedSeq(S) ==
    IF S = {} THEN <<>>
    ELSE LET m == CHOOSE x \in S : \A z \in S : x <= z
         IN <<m>> \o SortedSeq(S \ {m})

(***************************************************************************)
(* numpy's generator.  The Mersenne Twister is replaced by a small linear  *)
(* congruential generator: what the pipeline relies on is that a generator *)
(* is a state, that seeding sets the state from the seed alone, and that   *)
(* every draw is a function of the state and advances it.  permutation and *)
(* shuffle are Fisher-Yates over successive draws, as in numpy.            *)
(***************************************************************************)
Lcg(s) == (s * 1229 + 1) % 4096

\* np.random.seed(seed) / RandomState(seed): the state depends on the seed only.
RandomState(seed) == Lcg(Lcg(seed % 4096))

\* One step of the shuffle: position i is swapped with a drawn position j <= i.
RECURSIVE FisherYates(_, _, _)
RECURSIVE SwapDrawn(_, _, _, _)
SwapDrawn(a, s1, i, j) ==
    FisherYates([a EXCEPT ![i] = a[j], ![j] = a[i]], s1, i - 1)

FisherYates(a, s, i) ==
    IF i < 2 \/ Len(a) < 2 THEN [arr |-> a, rng |-> s]
    ELSE SwapDrawn(a, Lcg(s), i, ((Lcg(s) \div 16) % i) + 1)

\* rng.shuffle(a) / rng.permutation(a): the permuted array and the new state.
Shuffled(a, s) == FisherYates(a, s, Len(a))

Arange(n) == [i \in 1..n |-> i]

(***************************************************************************)
(* sklearn.model_selection, as called by split_dataset.                    *)
(***************************************************************************)
\* ceil(test_size * n_samples) with test_size = t/10 as a double: the product
\* rounds to the exact value for every n below 130.
CeilTestSize(t, n) == CeilDiv(t * n, 10)

\* val_ratio = val_size / (1 - test_size) as a double.  It is a valid
\* test_size (strictly between 0 and 1) exactly when v < 10 - t on the sizes
\* drawn here.
ValRatioValid(t, v) == v < 10 - t

\* The double val_ratio * m lies just above the exact product for these
\* arguments (0.1 / (1 - 0.8) = 0.5000000000000001, 0.1 / (1 - 0.1) =
\* 0.11111111111111112), so its ceiling is one more than the exact one.
FloatExcess(t, v, m) ==
    \/ t = 8 /\ v = 1 /\ m > 0 /\ m % 2 = 0
    \/ t = 1 /\ v \in {1, 2, 8} /\ m \in {63, 117, 126}

\* ceil(val_ratio * m)
CeilValRatio(t, v, m) ==
    CeilDiv(v * m, 10 - t) + (IF FloatExcess(t, v, m) THEN 1 ELSE 0)

\* _validate_shuffle_split for a float test_size and train_size None:
\* ValueError when the size is outside (0, 1) or the train set would be empty.
ValidateShuffleSplit(n, valid, n_test) ==
    IF ~valid \/ n - n_test <= 0
    THEN [raised |-> TRUE, n_train |-> 0, n_test |-> 0]
    ELSE [raised |-> FALSE, n_train |-> n - n_test, n_test |-> n_test]

\* _approximate_mode: floor of the proportional share, then the remaining
\* draws go to the largest remainders, ties broken by rng.choice.
RECURSIVE AddByRemainder(_, _, _, _, _)
RECURSIVE AddAtValue(_, _, _, _, _, _)
RECURSIVE AddChosen(_, _, _, _, _, _)

\* ch: the permuted indices holding the remainder value; the first ones get
\* one more draw each.
AddChosen(floored, rem, need, vals, value, ch) ==
    AddByRemainder(
        [i \in 1..Len(floored) |->
            floored[i] + (IF i \in Range(SubSeq(ch.arr, 1, Min(Len(ch.arr), need)))
                          THEN 1 ELSE 0)],
        rem, need - Min(Len(ch.arr), need), ch.rng, vals \ {value})

AddAtValue(floored, rem, need, s, vals, value) ==
    AddChosen(floored, rem, need, vals, value,
              Shuffled(SortedSeq({i \in 1..Len(rem) : rem[i] = value}), s))

AddByRemainder(floored, rem, need, s, vals) ==
    IF need = 0 \/ vals = {} THEN [counts |-> floored, rng |-> s]
    ELSE AddAtValue(floored, rem, need, s, vals,
                    CHOOSE x \in vals : \A z \in vals : x >= z)

Floored(class_counts, n_draws) ==
    [i \in 1..Len(class_counts) |->
        (class_counts[i] * n_draws) \div SumSeq(class_counts)]

Remainders(class_counts, n_draws) ==
    [i \in 1..Len(class_counts) |->
        (class_counts[i] * n_draws) % SumSeq(class_counts)]

ApproximateMode(class_counts, n_draws, s) ==
    AddByRemainder(Floored(class_counts, n_draws),
                   Remainders(class_counts, n_draws),
                   n_draws - SumSeq(Floored(class_counts, n_draws)), s,
                   Range(Remainders(class_counts, n_draws)))

\* The per-class loop of StratifiedShuffleSplit._iter_indices: the class is
\* permuted, its first n_i go to train and the next t_i to test.
RECURSIVE StratifiedPick(_, _, _, _, _, _, _)
RECURSIVE PickClass(_, _, _, _, _, _, _)
PickClass(class_indices, n_i, t_i, i, train, test, perm) ==
    StratifiedPick(class_indices, n_i, t_i, i + 1,
        train \o PySliceTo(perm.arr, n_i[i]),
        test \o PySlice(perm.arr, n_i[i], n_i[i] + t_i[i]),
        perm.rng)

StratifiedPick(class_indices, n_i, t_i, i, train, test, s) ==
    IF i > Len(class_indices) THEN [train |-> train, test |-> test, rng |-> s]
    ELSE PickClass(class_indices, n_i, t_i, i, train, test,
                   Shuffled(class_indices[i], s))

\* ShuffleSplit(test_size=n_test, train_size=n_train, random_state=seed)
Permuted(permutation, n_train, n_test) ==
    [raised |-> FALSE,
     train |-> PySlice(permutation, n_test, n_test + n_train),
     test |-> PySliceTo(permutation, n_test)]

ShuffleSplit(n, n_train, n_test, seed) ==
    Permuted(Shuffled(Arange(n), RandomState(seed)).arr, n_train, n_test)

\* Variant: the stratify argument is not honoured.
StratifyIgnored(y, n_train, n_test, seed) == ShuffleSplit(Len(y), n_train, n_test, seed)

\* StratifiedShuffleSplit(test_size=n_test, train_size=n_train,
\* random_state=seed).split(X, y): index arrays, or ValueError.  The stages
\* below follow _iter_indices: the classes of y and the positions of each,
\* the per-class train counts, the per-class test counts out of what is
\* left, the per-class picks, and the final permutation of both index sets.
ClassIndices(y, classes) ==
    [i \in 1..Len(classes) |-> SortedSeq({p \in 1..Len(y) : y[p] = classes[i]})]

ClassCounts(class_indices) ==
    [i \in 1..Len(class_indices) |-> Len(class_indices[i])]

StratifiedPermuteTest(train, picked_test) ==
    [raised |-> FALSE, train |-> train.arr,
     test |-> Shuffled(picked_test, train.rng).arr]

StratifiedPermute(picked) ==
    StratifiedPermuteTest(Shuffled(picked.train, picked.rng), picked.test)

StratifiedTestCounts(class_indices, n_i, t_i) ==
    StratifiedPermute(StratifiedPick(class_indices, n_i, t_i.counts, 1,
                                     <<>>, <<>>, t_i.rng))

StratifiedTrainCounts(class_indices, class_counts, n_test, n_i) ==
    StratifiedTestCounts(class_indices, n_i.counts,
        ApproximateMode([i \in 1..Len(class_counts) |->
                            class_counts[i] - n_i.counts[i]],
                        n_test, n_i.rng))

StratifiedByClass(class_indices, class_counts, n_train, n_test, seed) ==
    IF \/ \E i \in 1..Len(class_counts) : class_counts[i] < 2
       \/ n_train < Len(class_counts)
       \/ n_test < Len(class_counts)
    THEN [raised |-> TRUE, train |-> <<>>, test |-> <<>>]
    ELSE StratifiedTrainCounts(class_indices, class_counts, n_test,
             ApproximateMode(class_counts, n_train, RandomState(seed)))

StratifiedOfClasses(class_indices, n_train, n_test, seed) ==
    StratifiedByClass(class_indices, ClassCounts(class_indices), n_train, n_test, seed)

StratifiedShuffleSplit(y, n_train, n_test, seed) ==
    StratifiedOfClasses(ClassIndices(y, SortedSeq(Range(y))), n_train, n_test, seed)

\* train_test_split(..., test_size, random_state, stratify): the index arrays
\* it applies to every array it is given, or ValueError.
SplitOfSizes(y, sizes, seed, stratify) ==
    IF sizes.raised THEN [raised |-> TRUE, train |-> <<>>, test |-> <<>>]
    ELSE IF stratify
         THEN StratifiedShuffleSplit(y, sizes.n_train, sizes.n_test, seed)
         ELSE ShuffleSplit(Len(y), sizes.n_train, sizes.n_test, seed)

TrainTestSplit(y, valid, n_test, seed, stratify) ==
    SplitOfSizes(y, ValidateShuffleSplit(Len(y), valid, n_test), seed, stratify)

(***************************************************************************)
(* split_dataset                                                           *)
(***************************************************************************)
SmallSampleLimit == 20

Empty4 == [X |-> <<>>, y_exercise |-> <<>>, y_posture |-> <<>>, metadata |-> <<>>]

\* Variant: the metadata is left in its original order.
SelectMetadataUnshuffled(Xa, ye, yp, meta, idx) ==
    [X |-> Take(Xa, idx), y_exercise |-> Take(ye, idx),
     y_posture |-> Take(yp, idx), metadata |-> Take(meta, SortedSeq(Range(idx)))]

\* The four arrays of one partition, all taken with the same index array.
Select(Xa, ye, yp, meta, idx) ==
    [X |-> Take(Xa, idx), y_exercise |-> Take(ye, idx),
     y_posture |-> Take(yp, idx), metadata |-> Take(meta, idx)]

RaisedValueError ==
    [status |-> "ValueError", train |-> Empty4, val |-> Empty4, test |-> Empty4]

\* Variant: the call to np.random.seed is left out.
SeedGlobalOmitted(g, seed) == g

\* np.random.seed(random_state): the global generator restarts from the seed.
SeedGlobal(g, seed) == RandomState(seed)

n_test_small(n, t) == Max(1, (n * t) \div 10)

\* Variant: the validation count without its floor of one.
n_val_unfloored(n, v) == (n * v) \div 10

n_val_small(n, v) == Max(1, (n * v) \div 10)

\* indices[:n_train], indices[n_train:n_train + n_val], indices[n_train + n_val:]
CutByCount(Xa, ye, yp, meta, shuffled, n_train, n_val) ==
    [dataset |-> [status |-> "returned",
                  train |-> Select(Xa, ye, yp, meta,
                                   PySliceTo(shuffled.arr, n_train)),
                  val |-> Select(Xa, ye, yp, meta,
                                 PySlice(shuffled.arr, n_train, n_train + n_val)),
                  test |-> Select(Xa, ye, yp, meta,
                                  PySliceFrom(shuffled.arr, n_train + n_val))],
     printed |-> <<"too_few_samples">>,
     np_random |-> shuffled.rng]

\* The n_samples < 20 branch: one seeded shuffle of arange(n), cut by count.
SimpleSplit(Xa, ye, yp, meta, t, v, seed, g) ==
    CutByCount(Xa, ye, yp, meta,
               Shuffled(Arange(Len(Xa)), SeedGlobal(g, seed)),
               Len(Xa) - n_test_small(Len(Xa), t) - n_val_small(Len(Xa), v),
               n_val_small(Len(Xa), v))

\* The two train_test_split calls of one branch of the try/except: first
\* train+val / test, then train / val.  A ValueError of either call leaves
\* the branch.
SecondResult(temp, test, second) ==
    IF second.raised THEN RaisedValueError
    ELSE [status |-> "returned",
          train |-> Select(temp.X, temp.y_exercise, temp.y_posture,
                           temp.metadata, second.train),
          val |-> Select(temp.X, temp.y_exercise, temp.y_posture,
                         temp.metadata, second.test),
          test |-> test]

SecondStep(temp, test, t, v, seed, stratify) ==
    SecondResult(temp, test,
        TrainTestSplit(temp.y_exercise, ValRatioValid(t, v),
                       CeilValRatio(t, v, Len(temp.y_exercise)), seed, stratify))

FirstResult(Xa, ye, yp, meta, t, v, seed, stratify, first) ==
    IF first.raised THEN RaisedValueError
    ELSE SecondStep(Select(Xa, ye, yp, meta, first.train),
                    Select(Xa, ye, yp, meta, first.test), t, v, seed, stratify)

TwoStepSplit(Xa, ye, yp, meta, t, v, seed, stratify) ==
    FirstResult(Xa, ye, yp, meta, t, v, seed, stratify,
        TrainTestSplit(ye, t \in 1..9, CeilTestSize(t, Len(ye)), seed, stratify))

\* Variant: the fallback is taken without printing the warning.
ExceptValueErrorSilent(Xa, ye, yp, meta, t, v, seed, g, stratified) ==
    IF stratified.status = "returned"
    THEN [dataset |-> stratified, printed |-> <<>>, np_random |-> g]
    ELSE [dataset |-> TwoStepSplit(Xa, ye, yp, meta, t, v, seed, FALSE),
          printed |-> <<>>,
          np_random |-> g]

\* The except ValueError clause: the result of the try branch if it ran to
\* its end, else a warning is printed and both steps are redone without
\* stratify.
ExceptValueError(Xa, ye, yp, meta, t, v, seed, g, stratified) ==
    IF stratified.status = "returned"
    THEN [dataset |-> stratified, printed |-> <<>>, np_random |-> g]
    ELSE [dataset |-> TwoStepSplit(Xa, ye, yp, meta, t, v, seed, FALSE),
          printed |-> <<"stratified_split_failed">>,
          np_random |-> g]

\* The n_samples >= 20 branch, stratified by y_exercise.
StratifiedOrFallback(Xa, ye, yp, meta, t, v, seed, g) ==
    ExceptValueError(Xa, ye, yp, meta, t, v, seed, g,
                     TwoStepSplit(Xa, ye, yp, meta, t, v, seed, TRUE))

split_dataset(Xa, ye, yp, meta, t, v, seed, g) ==
    IF Len(Xa) < SmallSampleLimit
    THEN SimpleSplit(Xa, ye, yp, meta, t, v, seed, g)
    ELSE StratifiedOrFallback(Xa, ye, yp, meta, t, v, seed, g)

(***************************************************************************)
(* The pose-estimation corpus: 2D files <action>_<actor>_<camera>_<frame>  *)
(* and 3D files <action>_<actor>/3D_<action>_<actor>_<frame>.  A file is   *)
(* its name, whether it is well-formed json with the fields the parsers    *)
(* read, and the length of its joint list.                                 *)
(***************************************************************************)
NUM_JOINTS == 24

NoRecord == [kind |-> "none"]

File2D(parts, camera, frame, ok, joints) ==
    [parts |-> parts, action |-> 70, actor |-> "M180D", camera |-> camera,
     frame |-> frame, ok |-> ok, joints |-> joints]

\* Names of 2D files; the last one has too few name parts.
Names2D == << [parts |-> 4, camera |-> 1, frame |-> 0],
              [parts |-> 4, camera |-> 3, frame |-> 0],
              [parts |-> 4, camera |-> 1, frame |-> 1],
              [parts |-> 4, camera |-> 3, frame |-> 1],
              [parts |-> 2, camera |-> 2, frame |-> 0] >>

\* Places of 3D files: the folder of the key, or another actor's folder.
Paths3D == { [folder |-> <<70, "M180D">>, frame |-> 0],
             [folder |-> <<70, "M180D">>, frame |-> 1],
             [folder |-> <<71, "M180D">>, frame |-> 0] }

Contents == { [ok |-> FALSE, joints |-> 0],
              [ok |-> TRUE, joints |-> 23],
              [ok |-> TRUE, joints |-> 24] }

File3D(path, c) ==
    [folder |-> path.folder, action |-> 70, actor |-> "M180D",
     frame |-> path.frame, ok |-> c.ok, joints |-> c.joints]

Name2D(f) == [parts |-> f.parts, camera |-> f.camera, frame |-> f.frame]
Path3D(f) == [folder |-> f.folder, frame |-> f.frame]

\* ml/preprocess_full.py ------------------------------------------------
\* Variant: the 2D parser without its check of the joint count.
parse_2d_json_unchecked(f) ==
    IF ~f.ok THEN NoRecord
    ELSE IF f.parts < 4 THEN NoRecord
    ELSE [kind |-> "2d", action |-> f.action, actor |-> f.actor,
          frame |-> f.frame, joints |-> f.joints, src |-> Name2D(f)]

parse_2d_json_full(f) ==
    IF ~f.ok THEN NoRecord
    ELSE IF f.joints # NUM_JOINTS THEN NoRecord
    ELSE IF f.parts < 4 THEN NoRecord
    ELSE [kind |-> "2d", action |-> f.action, actor |-> f.actor,
          frame |-> f.frame, joints |-> f.joints, src |-> Name2D(f)]

\* Variant: the 3D parser without its check of the joint count.
parse_3d_json_unchecked(f) ==
    IF ~f.ok THEN NoRecord
    ELSE [kind |-> "3d", joints |-> f.joints, src |-> Path3D(f)]

parse_3d_json_full(f) ==
    IF ~f.ok THEN NoRecord
    ELSE IF f.joints # NUM_JOINTS THEN NoRecord
    ELSE [kind |-> "3d", joints |-> f.joints, src |-> Path3D(f)]

\* The files at <dir_3d>/<action>_<actor>/3D_<action>_<actor>_<frame>.json
DirectPath(action, actor, frame) ==
    {f \in files_3d : /\ f.folder = <<action, actor>>
                      /\ f.action = action /\ f.actor = actor /\ f.frame = frame}

\* Variant: the frame number is left out of the path.
get_3d_file_path_any_frame(action, actor, frame) ==
    {f \in files_3d : f.folder = <<action, actor>>}

get_3d_file_path(action, actor, frame) == DirectPath(action, actor, frame)

\* ml/preprocess.py -----------------------------------------------------
\* These parsers raise on a file they cannot read ("raised") and have no
\* check of the joint count; an empty 2D joint list fails on coords_2d[:, 0].
parse_2d_json(f) ==
    IF ~f.ok \/ f.joints = 0 THEN [kind |-> "raised"]
    ELSE [kind |-> "2d", action |-> f.action, actor |-> f.actor,
          frame |-> f.frame, joints |-> f.joints, src |-> Name2D(f)]

parse_3d_json(f) ==
    IF ~f.ok THEN [kind |-> "raised"]
    ELSE [kind |-> "3d", joints |-> f.joints, src |-> Path3D(f)]

\* The direct path if it exists, else any folder under the 3D root holding a
\* file of that name (iterdir order is not specified).
find_matching_3d_file(action, actor, frame) ==
    IF DirectPath(action, actor, frame) # {}
    THEN DirectPath(action, actor, frame)
    ELSE {f \in files_3d : f.action = action /\ f.actor = actor /\ f.frame = frame}

NotCalled == [status |-> "none", train |-> Empty4, val |-> Empty4, test |-> Empty4]

\* The orders in which a directory listing (rglob, iterdir) may give the files.
Listings(S) ==
    {l \in [1..Cardinality(S) -> S] : \A i, j \in 1..Cardinality(S) : l[i] = l[j] => i = j}

MainIdle ==
    /\ desc = "none"
    /\ val_dirs = [files_2d |-> <<>>, files_3d |-> {}]
    /\ train_2d = <<>>
    /\ train_3d = <<>>

\* The default class list (TARGET_EXERCISES, cut to two classes).
exercise_names == <<"Squat", "Lunge">>

\* A checkpoint as torch.save writes it: the epoch index and the F1 stored in
\* it; 'run' tells the run that wrote the file ("none": there is no file).
Checkpoint(run, epoch, f1) == [run |-> run, epoch |-> epoch, f1 |-> f1]
NoFile == Checkpoint("none", 0, 0)
NotLoaded == Checkpoint("unset", 0, 0)

TrainIdle ==
    /\ model_type = "none"
    /\ epochs = 0
    /\ early_stopping = 0
    /\ history = <<>>
    /\ best_val_f1 = 0
    /\ patience_counter = 0
    /\ stopped = FALSE
    /\ best_model_pth = NoFile
    /\ checkpoint = NotLoaded
    /\ raised = ""

UnitIdle ==
    /\ all_json_files = <<>>
    /\ next_json = 0
    /\ skipped_3d = 0
    /\ target_exercises = exercise_names
    /\ keypoint_data = [coordinates |-> <<>>, visibility |-> <<>>]
    /\ result = [fn |-> "none"]
    /\ pts = <<>>
    /\ TrainIdle

PoseIdle ==
    /\ program = "none"
    /\ files_2d = <<>>
    /\ files_3d = {}
    /\ next_2d = 0
    /\ data_2d = <<>>
    /\ data_3d = <<>>
    /\ matched = 0
    /\ skipped_2d = 0
    /\ skipped_3d_not_found = 0
    /\ skipped_3d_parse = 0
    /\ pose_result = "idle"
    /\ MainIdle

FitIdle ==
    /\ samples = <<>>
    /\ use_all_frames = FALSE
    /\ use_all_views = FALSE
    /\ next_sample = 0
    /\ X_list = <<>>
    /\ y_exercise_list = <<>>
    /\ y_posture_list = <<>>
    /\ metadata_list = <<>>
    /\ skipped_no_view = 0
    /\ skipped_low_visibility = 0
    /\ skipped_unknown_type = 0
    /\ processed = 0
    /\ created = "idle"

SplitIdle ==
    /\ X = <<>>
    /\ y_exercise = <<>>
    /\ y_posture = <<>>
    /\ metadata = <<>>
    /\ test_size = 1
    /\ val_size = 1
    /\ random_state = 0
    /\ np_random = 0
    /\ stdout = <<>>
    /\ dataset = NotCalled
    /\ previous = NotCalled
    /\ calls = 2

InitPose ==
    /\ program \in {"process_dataset", "preprocess_data"}
    /\ \E S \in SUBSET (1..Len(Names2D)) :
          /\ Cardinality(S) <= MaxFiles2D
          /\ \E c \in [S -> Contents] :
             \E listing \in Listings(S) :
                files_2d = [k \in 1..Cardinality(S) |->
                    File2D(Names2D[listing[k]].parts, Names2D[listing[k]].camera,
                           Names2D[listing[k]].frame, c[listing[k]].ok,
                           c[listing[k]].joints)]
    /\ \E S \in SUBSET Paths3D :
          /\ Cardinality(S) <= MaxFiles3D
          /\ \E c \in [S -> Contents] : files_3d = {File3D(q, c[q]) : q \in S}
    /\ next_2d = 0
    /\ data_2d = <<>>
    /\ data_3d = <<>>
    /\ matched = 0
    /\ skipped_2d = 0
    /\ skipped_3d_not_found = 0
    /\ skipped_3d_parse = 0
    /\ pose_result = "running"
    /\ MainIdle
    /\ SplitIdle
    /\ FitIdle
    /\ UnitIdle

\* One iteration of the loop of process_dataset.
ProcessDatasetStep ==
    /\ program \in {"process_dataset", "main"}
    /\ pose_result = "running"
    /\ next_2d < Len(files_2d)
    /\ next_2d' = next_2d + 1
    /\ \E result_2d \in {parse_2d_json_full(files_2d[next_2d + 1])} :
        IF result_2d = NoRecord
        THEN /\ skipped_2d' = skipped_2d + 1
             /\ UNCHANGED <<data_2d, data_3d, matched, skipped_3d_not_found,
                            skipped_3d_parse>>
        ELSE \E found \in {get_3d_file_path(result_2d.action, result_2d.actor,
                                            result_2d.frame)} :
            IF found = {}
            THEN /\ skipped_3d_not_found' = skipped_3d_not_found + 1
                 /\ UNCHANGED <<data_2d, data_3d, matched, skipped_2d,
                                skipped_3d_parse>>
            ELSE \E file_3d \in found :
                 \E result_3d \in {parse_3d_json_full(file_3d)} :
                    IF result_3d = NoRecord
                    THEN /\ skipped_3d_parse' = skipped_3d_parse + 1
                         /\ UNCHANGED <<data_2d, data_3d, matched, skipped_2d,
                                        skipped_3d_not_found>>
                    ELSE /\ data_2d' = Append(data_2d, result_2d)
                         /\ data_3d' = Append(data_3d, result_3d)
                         /\ matched' = matched + 1
                         /\ UNCHANGED <<skipped_2d, skipped_3d_not_found,
                                        skipped_3d_parse>>
    /\ UNCHANGED <<program, files_2d, files_3d, pose_result>>
    /\ UNCHANGED mainVars
    /\ UNCHANGED <<X, y_exercise, y_posture, metadata, test_size, val_size,
                   random_state, np_random, stdout, dataset, previous, calls>>
    /\ UNCHANGED fitVars
    /\ UNCHANGED unitVars

\* One iteration of the loop of preprocess_data: any exception of the body is
\* printed and the file is left out; a file without 3D counterpart is left
\* out by a bare continue.  The script keeps no skip counter.
PreprocessDataStep ==
    /\ program = "preprocess_data"
    /\ pose_result = "running"
    /\ next_2d < Len(files_2d)
    /\ next_2d' = next_2d + 1
    /\ \E parsed_2d \in {parse_2d_json(files_2d[next_2d + 1])} :
        IF parsed_2d.kind = "raised"
        THEN UNCHANGED <<data_2d, data_3d, matched>>
        ELSE \E found \in {find_matching_3d_file(parsed_2d.action, parsed_2d.actor,
                                                 parsed_2d.frame)} :
            IF found = {}
            THEN UNCHANGED <<data_2d, data_3d, matched>>
            ELSE \E file_3d \in found :
                 \E parsed_3d \in {parse_3d_json(file_3d)} :
                    IF parsed_3d.kind = "raised"
                    THEN UNCHANGED <<data_2d, data_3d, matched>>
                    ELSE /\ data_2d' = Append(data_2d, parsed_2d)
                         /\ data_3d' = Append(data_3d, parsed_3d)
                         /\ matched' = matched + 1
    /\ UNCHANGED <<program, files_2d, files_3d, skipped_2d, skipped_3d_not_found,
                   skipped_3d_parse, pose_result>>
    /\ UNCHANGED mainVars
    /\ UNCHANGED <<X, y_exercise, y_posture, metadata, test_size, val_size,
                   random_state, np_random, stdout, dataset, previous, calls>>
    /\ UNCHANGED fitVars
    /\ UNCHANGED unitVars

\* np.array(rows, dtype=float32) fails on rows of different lengths.
Ragged(rows) == \E i, j \in 1..Len(rows) : rows[i].joints # rows[j].joints

\* After the loop of process_dataset: the counters are printed and the two
\* arrays returned (every row has 24 joints there).
ProcessDatasetEnd ==
    /\ program = "process_dataset"
    /\ pose_result = "running"
    /\ next_2d = Len(files_2d)
    /\ pose_result' = "returned"
    /\ UNCHANGED <<program, files_2d, files_3d, next_2d, data_2d, data_3d, matched,
                   skipped_2d, skipped_3d_not_found, skipped_3d_parse>>
    /\ UNCHANGED mainVars
    /\ UNCHANGED <<X, y_exercise, y_posture, metadata, test_size, val_size,
                   random_state, np_random, stdout, dataset, previous, calls>>
    /\ UNCHANGED fitVars
    /\ UNCHANGED unitVars

\* After the loop of preprocess_data: no output without a matched pair;
\* otherwise the rows are stacked, split 80/20 and saved.
PreprocessDataEnd ==
    /\ program = "preprocess_data"
    /\ pose_result = "running"
    /\ next_2d = Len(files_2d)
    /\ pose_result' = IF matched = 0 THEN "no_matched_data"
                      ELSE IF Ragged(data_2d) \/ Ragged(data_3d) THEN "ValueError"
                      ELSE "saved"
    /\ UNCHANGED <<program, files_2d, files_3d, next_2d, data_2d, data_3d, matched,
                   skipped_2d, skipped_3d_not_found, skipped_3d_parse>>
    /\ UNCHANGED mainVars
    /\ UNCHANGED <<X, y_exercise, y_posture, metadata, test_size, val_size,
                   random_state, np_random, stdout, dataset, previous, calls>>
    /\ UNCHANGED fitVars
    /\ UNCHANGED unitVars

NextPose ==
    \/ ProcessDatasetStep
    \/ ProcessDatasetEnd
    \/ PreprocessDataStep
    \/ PreprocessDataEnd

SpecPose == InitPose /\ [][NextPose]_vars

(***************************************************************************)
(* main of ml/preprocess_full.py: process_dataset on the Training corpus,  *)
(* then on the Validation corpus, then one archive with the arrays of      *)
(* both.  A directory that does not exist gives the empty arrays that a    *)
(* directory without json files gives.                                     *)
(***************************************************************************)
MaxMainFiles == 1   \* 2D files in each corpus of main

\* The listings of a 2D directory that holds some of the first max names.
Listed2D(max) ==
    UNION {
      UNION {
        {[k \in 1..Cardinality(S) |->
            File2D(Names2D[listing[k]].parts, Names2D[listing[k]].camera,
                   Names2D[listing[k]].frame, c[listing[k]].ok,
                   c[listing[k]].joints)] : listing \in Listings(S)}
        : c \in [S -> Contents]}
      : S \in SUBSET (1..Min(max, Len(Names2D)))}

\* A 3D directory that is empty or holds the file of frame 0.
Held3D ==
    {{}} \cup {{File3D([folder |-> <<70, "M180D">>, frame |-> 0], c)} : c \in Contents}

InitMain ==
    /\ program = "main"
    /\ desc = "Training"
    /\ files_2d \in Listed2D(MaxMainFiles)
    /\ files_3d \in Held3D
    /\ val_dirs \in [files_2d : Listed2D(MaxMainFiles), files_3d : Held3D]
    /\ train_2d = <<>>
    /\ train_3d = <<>>
    /\ next_2d = 0
    /\ data_2d = <<>>
    /\ data_3d = <<>>
    /\ matched = 0
    /\ skipped_2d = 0
    /\ skipped_3d_not_found = 0
    /\ skipped_3d_parse = 0
    /\ pose_result = "running"
    /\ SplitIdle
    /\ FitIdle
    /\ UnitIdle

\* process_dataset returns for the Training corpus and is called for the
\* Validation corpus: new lists and counters.
MainTrainingReturn ==
    /\ program = "main"
    /\ pose_result = "running"
    /\ desc = "Training"
    /\ next_2d = Len(files_2d)
    /\ train_2d' = data_2d
    /\ train_3d' = data_3d
    /\ desc' = "Validation"
    /\ files_2d' = val_dirs.files_2d
    /\ files_3d' = val_dirs.files_3d
    /\ next_2d' = 0
    /\ data_2d' = <<>>
    /\ data_3d' = <<>>
    /\ matched' = 0
    /\ skipped_2d' = 0
    /\ skipped_3d_not_found' = 0
    /\ skipped_3d_parse' = 0
    /\ UNCHANGED <<program, pose_result, val_dirs>>
    /\ UNCHANGED splitVars
    /\ UNCHANGED fitVars
    /\ UNCHANGED unitVars

\* process_dataset returns for the Validation corpus (val_2d, val_3d are
\* data_2d, data_3d); without a Training row main prints that no data was
\* processed and returns, otherwise it saves the archive.
MainEnd ==
    /\ program = "main"
    /\ pose_result = "running"
    /\ desc = "Validation"
    /\ next_2d = Len(files_2d)
    /\ pose_result' = IF Len(train_2d) = 0 THEN "no_data" ELSE "saved"
    /\ UNCHANGED <<program, files_2d, files_3d, next_2d, data_2d, data_3d, matched,
                   skipped_2d, skipped_3d_not_found, skipped_3d_parse>>
    /\ UNCHANGED mainVars
    /\ UNCHANGED splitVars
    /\ UNCHANGED fitVars
    /\ UNCHANGED unitVars

NextMain ==
    \/ ProcessDatasetStep
    \/ MainTrainingReturn
    \/ MainEnd

SpecMain == InitMain /\ [][NextMain]_vars

(***************************************************************************)
(* create_dataset of scripts/preprocess_fitness_dataset.py.  A frame is    *)
(* its list of active views and, per active view, the keypoints parsed for *)
(* it; of the keypoints the model keeps the number that are visible.  A    *)
(* feature row is written as the keypoints it was extracted from.          *)
(***************************************************************************)
MIN_VISIBLE == 12
DefaultRandomState == 42
preferred_view == "view1"

\* The last position of name in names, counted from 0: a dict comprehension
\* keeps, for a key given twice, the value given last.
LastIndex(names, name) ==
    (CHOOSE i \in 1..Len(names) :
        /\ names[i] = name
        /\ \A j \in 1..Len(names) : names[j] = name => j <= i) - 1

create_exercise_id_map(names) ==
    [name \in Range(names) |-> LastIndex(names, name)]
exercise_id_map == create_exercise_id_map(target_exercises)

FrameData(active_views, visible) ==
    [active_views |-> active_views,
     keypoints |-> [v \in Range(active_views) |-> visible[v]]]

FrameA == FrameData(<<"view1", "view2">>, [view1 |-> 12, view2 |-> 12])
FrameB == FrameData(<<"view2">>, [view2 |-> 12])
FrameC == FrameData(<<"view1", "view2">>, [view1 |-> 11, view2 |-> 12])

FrameLists == { <<FrameA>>, <<FrameB, FrameA>>, <<FrameC>>, <<FrameC, FrameB>> }

SampleKinds ==
    [exercise_type : {"Squat", "Lunge", "Plank"}, is_correct : BOOLEAN,
     frames : FrameLists]

SampleData(file_name, kind) ==
    [file_name |-> file_name, exercise_type |-> kind.exercise_type,
     is_correct |-> kind.is_correct, frames |-> kind.frames]

\* features = extract_features(kp, feature_type), a function of the keypoints
\* alone: the row is written as the keypoints it was extracted from.
features(sample, frame_idx, view_name) ==
    [file_name |-> sample.file_name, frame_idx |-> frame_idx, view |-> view_name,
     visible |-> sample.frames[frame_idx + 1].keypoints[view_name]]

views_to_use(frame, all_views) ==
    IF all_views THEN frame.active_views
    ELSE IF preferred_view \in DOMAIN frame.keypoints THEN <<preferred_view>>
    ELSE IF frame.active_views # <<>> THEN <<frame.active_views[1]>>
    ELSE <<>>

frames_to_use(sample, all_frames) ==
    IF all_frames THEN sample.frames ELSE PySliceTo(sample.frames, 1)

\* Variant: a view with exactly the minimum of visible keypoints is skipped too.
LowVisibilityInclusive(total_visible) == total_visible <= MIN_VISIBLE

\* Line 547.
LowVisibility(total_visible) == total_visible < MIN_VISIBLE

\* Variant: the two posture labels exchanged.
posture_label_exchanged(sample) == IF sample.is_correct THEN 0 ELSE 1

\* Line 557.
posture_label(sample) == IF sample.is_correct THEN 1 ELSE 0

\* The (frame_idx, view) pairs of a sample in the order the two inner loops
\* visit them.
RECURSIVE Visits(_, _, _)
Visits(frames, all_views, frame_idx) ==
    IF frame_idx >= Len(frames) THEN <<>>
    ELSE [p \in 1..Len(views_to_use(frames[frame_idx + 1], all_views)) |->
            [frame_idx |-> frame_idx,
             view |-> views_to_use(frames[frame_idx + 1], all_views)[p]]]
         \o Visits(frames, all_views, frame_idx + 1)

\* The loop body for the visits of one sample, folded from the left over acc,
\* the four lists and the counters.
RECURSIVE VisitAll(_, _, _, _)
VisitAll(sample, exercise_id, visits, acc) ==
    IF visits = <<>> THEN acc
    ELSE LET frame_idx == Head(visits).frame_idx
             view_name == Head(visits).view
             frame == sample.frames[frame_idx + 1]
         IN VisitAll(sample, exercise_id, Tail(visits),
              IF view_name \notin DOMAIN frame.keypoints
              THEN [acc EXCEPT !.skipped_no_view = @ + 1]
              ELSE IF LowVisibility(frame.keypoints[view_name])
              THEN [acc EXCEPT !.skipped_low_visibility = @ + 1]
              ELSE [acc EXCEPT
                     !.X_list = Append(@, features(sample, frame_idx, view_name)),
                     !.y_exercise_list = Append(@, exercise_id),
                     !.y_posture_list = Append(@, posture_label(sample)),
                     !.metadata_list = Append(@,
                         [file_name |-> sample.file_name,
                          exercise_name |-> sample.exercise_type,
                          exercise_id |-> exercise_id,
                          frame_idx |-> frame_idx,
                          view |-> view_name,
                          is_correct |-> sample.is_correct]),
                     !.processed = @ + 1])

InitFitness ==
    /\ \E n \in 0..MaxSamples :
       \E kinds \in [1..n -> SampleKinds] :
          samples = [i \in 1..n |-> SampleData(i, kinds[i])]
    /\ use_all_frames \in BOOLEAN
    /\ use_all_views \in BOOLEAN
    /\ next_sample = 0
    /\ X_list = <<>>
    /\ y_exercise_list = <<>>
    /\ y_posture_list = <<>>
    /\ metadata_list = <<>>
    /\ skipped_no_view = 0
    /\ skipped_low_visibility = 0
    /\ skipped_unknown_type = 0
    /\ processed = 0
    /\ created = "running"
    /\ X = <<>>
    /\ y_exercise = <<>>
    /\ y_posture = <<>>
    /\ metadata = <<>>
    /\ test_size = 1
    /\ val_size = 1
    /\ random_state = DefaultRandomState
    /\ np_random = 0
    /\ stdout = <<>>
    /\ dataset = NotCalled
    /\ previous = NotCalled
    /\ calls = 0
    /\ PoseIdle
    /\ UnitIdle

\* One iteration of the loop over samples.
CreateDatasetSample ==
    /\ created = "running"
    /\ next_sample < Len(samples)
    /\ next_sample' = next_sample + 1
    /\ \E sample \in {samples[next_sample + 1]} :
        IF sample.exercise_type \notin DOMAIN exercise_id_map
        THEN /\ skipped_unknown_type' = skipped_unknown_type + 1
             /\ UNCHANGED <<X_list, y_exercise_list, y_posture_list, metadata_list,
                            skipped_no_view, skipped_low_visibility, processed>>
        ELSE \E acc \in {VisitAll(sample, exercise_id_map[sample.exercise_type],
                            Visits(frames_to_use(sample, use_all_frames),
                                   use_all_views, 0),
                            [X_list |-> X_list, y_exercise_list |-> y_exercise_list,
                             y_posture_list |-> y_posture_list,
                             metadata_list |-> metadata_list,
                             skipped_no_view |-> skipped_no_view,
                             skipped_low_visibility |-> skipped_low_visibility,
                             processed |-> processed])} :
             /\ X_list' = acc.X_list
             /\ y_exercise_list' = acc.y_exercise_list
             /\ y_posture_list' = acc.y_posture_list
             /\ metadata_list' = acc.metadata_list
             /\ skipped_no_view' = acc.skipped_no_view
             /\ skipped_low_visibility' = acc.skipped_low_visibility
             /\ processed' = acc.processed
             /\ UNCHANGED skipped_unknown_type
    /\ UNCHANGED <<samples, use_all_frames, use_all_views, created>>
    /\ UNCHANGED <<X, y_exercise, y_posture, metadata>>
    /\ UNCHANGED <<test_size, val_size, random_state, np_random, stdout, dataset,
                   previous, calls>>
    /\ UNCHANGED poseVars
    /\ UNCHANGED unitVars

\* After the loop: the four lists become the returned arrays (empty arrays
\* and an empty list when no row was gathered).
CreateDatasetReturn ==
    /\ created = "running"
    /\ next_sample = Len(samples)
    /\ created' = "returned"
    /\ X' = X_list
    /\ y_exercise' = y_exercise_list
    /\ y_posture' = y_posture_list
    /\ metadata' = metadata_list
    /\ UNCHANGED <<samples, use_all_frames, use_all_views, next_sample, X_list,
                   y_exercise_list, y_posture_list, metadata_list, skipped_no_view,
                   skipped_low_visibility, skipped_unknown_type, processed>>
    /\ UNCHANGED <<test_size, val_size, random_state, np_random, stdout, dataset,
                   previous, calls>>
    /\ UNCHANGED poseVars
    /\ UNCHANGED unitVars

\* main: with at least one row, the arrays go to split_dataset with the
\* sizes of the command line and the default random_state.
MainSplit ==
    /\ created = "returned"
    /\ Len(X) > 0
    /\ calls = 0
    /\ \E r \in {split_dataset(X, y_exercise, y_posture, metadata,
                              test_size, val_size, random_state, np_random)} :
          /\ dataset' = r.dataset
          /\ stdout' = stdout \o r.printed
          /\ np_random' = r.np_random
    /\ previous' = dataset
    /\ calls' = calls + 1
    /\ UNCHANGED <<X, y_exercise, y_posture, metadata, test_size, val_size,
                   random_state>>
    /\ UNCHANGED poseVars
    /\ UNCHANGED fitVars
    /\ UNCHANGED unitVars

NextFitness ==
    \/ CreateDatasetSample
    \/ CreateDatasetReturn
    \/ MainSplit

SpecFitness == InitFitness /\ [][NextFitness]_vars

(***************************************************************************)
(* parse_json_file and the parse loop of main.  An exercise name is the    *)
(* sequence of its words and blanks, the words written in Latin letters:   *)
(* "seukwoteu" is the word of the key at line 86, "babel" the first word   *)
(* of line 87, "jeompeu", "dainamik" the words of line 90, "reonji" the    *)
(* key of line 94, "saideu" the first word of line 97, "peullaengkeu" the  *)
(* key of line 107.  A json value is written as its json text, "absent"    *)
(* for a key that is not there.                                            *)
(***************************************************************************)
None == "None"

\* The entries of lines 86, 87, 90, 94, 97 and 107, in the order of the dict.
EXERCISE_NAME_MAP ==
    << [kr |-> <<"seukwoteu">>, en |-> "Squat"],
       [kr |-> <<"babel", " ", "seukwoteu">>, en |-> "Squat"],
       [kr |-> <<"jeompeu", " ", "seukwoteu", " ", "dainamik", " ", "reonji">>,
        en |-> "Lunge"],
       [kr |-> <<"reonji">>, en |-> "Lunge"],
       [kr |-> <<"saideu", " ", "reonji">>, en |-> "Side Lunge"],
       [kr |-> <<"peullaengkeu">>, en |-> "Plank"] >>

\* Python's  a in b  on strings.
IsSubstring(a, b) ==
    \E i \in 0..(Len(b) - Len(a)) : SubSeq(b, i + 1, i + Len(a)) = a

\* The loop of lines 208-210: the first entry, in dict order, whose key is
\* in the name or holds the name.
RECURSIVE FirstContained(_, _)
FirstContained(korean_name, k) ==
    IF k > Len(EXERCISE_NAME_MAP) THEN None
    ELSE IF \/ IsSubstring(EXERCISE_NAME_MAP[k].kr, korean_name)
            \/ IsSubstring(korean_name, EXERCISE_NAME_MAP[k].kr)
         THEN EXERCISE_NAME_MAP[k].en
         ELSE FirstContained(korean_name, k + 1)

\* Variant: the loop alone, without the lookup of the name as a key.
ContainedOnly(korean_name) == FirstContained(korean_name, 1)

get_english_exercise_name(korean_name) ==
    IF \E k \in 1..Len(EXERCISE_NAME_MAP) : EXERCISE_NAME_MAP[k].kr = korean_name
    THEN EXERCISE_NAME_MAP[CHOOSE k \in 1..Len(EXERCISE_NAME_MAP) :
                              EXERCISE_NAME_MAP[k].kr = korean_name].en
    ELSE FirstContained(korean_name, 1)

\* Python's truth value of a json value.
PyTruth(v) == v \notin {"false", "null", "0", "''"}

\* cond.get('value', False)
CondValue(cond) == IF cond = "absent" THEN "false" ELSE cond

\* Lines 296-298; conditions is the list of the conditions' value entries.
is_correct(conditions) ==
    IF conditions # <<>>
    THEN \A i \in 1..Len(conditions) : PyTruth(CondValue(conditions[i]))
    ELSE FALSE

ViewNames == <<"view1", "view2", "view3", "view4", "view5">>

\* A view of a frame of the file: its 'active' entry, whether it has 'pts',
\* and how many of the 24 keypoints its pts give.
ViewJson(active, has_pts, visible) ==
    [active |-> active, has_pts |-> has_pts, visible |-> visible]

\* Variant: a view counts as soon as its 'active' entry is "Yes".
IsActiveViewWithoutPts(frame, v) ==
    v \in DOMAIN frame /\ frame[v].active = "Yes"

\* Lines 252-254.
IsActiveView(frame, v) ==
    v \in DOMAIN frame /\ frame[v].active = "Yes" /\ frame[v].has_pts

\* keypoints[view_name] = kp
WithKey(keypoints, view_name, kp) ==
    [v \in DOMAIN keypoints \cup {view_name} |->
        IF v = view_name THEN kp ELSE keypoints[v]]

\* Lines 251-257: the loop over the five view names from the k-th on; data
\* holds keypoints and active_views as built so far.
RECURSIVE ParseViews(_, _, _)
ParseViews(frame, k, data) ==
    IF k > Len(ViewNames) THEN data
    ELSE ParseViews(frame, k + 1,
            IF IsActiveView(frame, ViewNames[k])
            THEN [keypoints |-> WithKey(data.keypoints, ViewNames[k],
                                        frame[ViewNames[k]].visible),
                  active_views |-> Append(data.active_views, ViewNames[k])]
            ELSE data)

parse_frame(frame) ==
    ParseViews(frame, 1, [keypoints |-> <<>>, active_views |-> <<>>])

\* Lines 301-305: the frames with at least one active view.
RECURSIVE ParsedFrames(_)
ParsedFrames(frames) ==
    IF frames = <<>> THEN <<>>
    ELSE (IF parse_frame(Head(frames)).active_views # <<>>
          THEN <<parse_frame(Head(frames))>> ELSE <<>>)
         \o ParsedFrames(Tail(frames))

\* An Optional[SampleData] is the sequence of no or of one SampleData.
NoSample == <<>>

SampleOfFrames(file, exercise_name, frames) ==
    IF frames = <<>> THEN NoSample
    ELSE <<SampleData(file.name,
                      [exercise_type |-> exercise_name,
                       is_correct |-> is_correct(file.conditions),
                       frames |-> frames])>>

SampleOfName(file, targets, exercise_name) ==
    IF exercise_name = None THEN NoSample
    ELSE IF exercise_name \notin Range(targets) THEN NoSample
    ELSE SampleOfFrames(file, exercise_name, ParsedFrames(file.frames))

\* A file that is not json, or whose entries are not of the type the code
\* reads them as, raises inside the try: the error is printed, None returned.
parse_json_file(file, targets) ==
    IF ~file.ok THEN NoSample
    ELSE SampleOfName(file, targets,
                      get_english_exercise_name(file.exercise))

MaxJson == 2        \* json files found under the input directories

NamesDrawn ==
    { <<"seukwoteu">>, <<"reonji">>, <<"saideu", " ", "reonji">>,
      <<"jeompeu", " ", "seukwoteu">>, <<"dainamik", " ", "reonji">>,
      <<"saideu", " ", "reonji", " ">>, <<"saideu">>, <<>>,
      <<"Unknown">> }

ConditionLists ==
    { <<>>, <<"true">>, <<"true", "true">>, <<"true", "false">>, <<"absent">>,
      <<"true", "absent">>, <<"true", "null">>, <<"1">>, <<"'false'">> }

JsonFrameA == [view1 |-> ViewJson("Yes", TRUE, 12), view2 |-> ViewJson("Yes", TRUE, 12)]
JsonFrameC == [view1 |-> ViewJson("Yes", TRUE, 11), view2 |-> ViewJson("Yes", TRUE, 12)]
JsonFrameOff == [view1 |-> ViewJson("No", TRUE, 12), view2 |-> ViewJson("Yes", FALSE, 0)]

JsonFrameGaps ==
    [view5 |-> ViewJson("No", TRUE, 12), view3 |-> ViewJson("Yes", TRUE, 12),
     view2 |-> ViewJson("Yes", FALSE, 0), view1 |-> ViewJson("Yes", TRUE, 12)]

JsonFrameLists ==
    { <<JsonFrameA>>, <<>>, <<JsonFrameOff>>, <<JsonFrameOff, JsonFrameA>>,
      <<JsonFrameC>>, <<JsonFrameOff, JsonFrameGaps>> }

\* The class lists a run may be given: the default, or the names of
\* --exercises in the order and number the user wrote them.
TargetLists ==
    { exercise_names, <<"Lunge">>, <<"Squat", "Squat", "Lunge">> }

JsonContent(is3d, ok, exercise, conditions, frames) ==
    [is3d |-> is3d, ok |-> ok, exercise |-> exercise, conditions |-> conditions,
     frames |-> frames]

\* What a json file under the input directories may hold: a squat file with
\* one true condition and one frame, and the files that differ from it in
\* the exercise name, in the conditions or in the frames; a file that does
\* not parse; a '-3d' file.
JsonContents ==
    {JsonContent(FALSE, TRUE, e, <<"true">>, <<JsonFrameA>>) : e \in NamesDrawn}
    \cup {JsonContent(FALSE, TRUE, <<"reonji">>, c, <<JsonFrameA>>) : c \in ConditionLists}
    \cup {JsonContent(FALSE, TRUE, <<"seukwoteu">>, <<"true">>, f) : f \in JsonFrameLists}
    \cup {JsonContent(FALSE, FALSE, <<>>, <<>>, <<>>),
          JsonContent(TRUE, TRUE, <<"seukwoteu">>, <<"true">>, <<JsonFrameA>>)}

JsonFile(name, content) ==
    [name |-> name, is3d |-> content.is3d, ok |-> content.ok,
     exercise |-> content.exercise, conditions |-> content.conditions,
     frames |-> content.frames]

InitParse ==
    /\ keypoint_data = [coordinates |-> <<>>, visibility |-> <<>>]
    /\ result = [fn |-> "none"]
    /\ pts = <<>>
    /\ TrainIdle
    /\ target_exercises \in TargetLists
    /\ \E n \in 0..MaxJson :
       \E contents \in [1..n -> JsonContents] :
          all_json_files = [k \in 1..n |-> JsonFile(k, contents[k])]
    /\ next_json = 0
    /\ skipped_3d = 0
    /\ samples = <<>>
    /\ use_all_frames \in BOOLEAN
    /\ use_all_views = use_all_frames
    /\ next_sample = 0
    /\ X_list = <<>>
    /\ y_exercise_list = <<>>
    /\ y_posture_list = <<>>
    /\ metadata_list = <<>>
    /\ skipped_no_view = 0
    /\ skipped_low_visibility = 0
    /\ skipped_unknown_type = 0
    /\ processed = 0
    /\ created = "parsing"
    /\ X = <<>>
    /\ y_exercise = <<>>
    /\ y_posture = <<>>
    /\ metadata = <<>>
    /\ test_size = 1
    /\ val_size = 1
    /\ random_state = DefaultRandomState
    /\ np_random = 0
    /\ stdout = <<>>
    /\ dataset = NotCalled
    /\ previous = NotCalled
    /\ calls = 0
    /\ PoseIdle

\* One iteration of the loop of lines 754-760.
MainParseFile ==
    /\ created = "parsing"
    /\ next_json < Len(all_json_files)
    /\ next_json' = next_json + 1
    /\ \E json_file \in {all_json_files[next_json + 1]} :
        IF json_file.is3d
        THEN /\ skipped_3d' = skipped_3d + 1
             /\ UNCHANGED samples
        ELSE /\ samples' = samples \o parse_json_file(json_file, target_exercises)
             /\ UNCHANGED skipped_3d
    /\ UNCHANGED <<all_json_files, target_exercises, keypoint_data, result, pts,
                   trainVars>>
    /\ UNCHANGED <<use_all_frames, use_all_views, next_sample, X_list,
                   y_exercise_list, y_posture_list, metadata_list, skipped_no_view,
                   skipped_low_visibility, skipped_unknown_type, processed, created>>
    /\ UNCHANGED splitVars
    /\ UNCHANGED poseVars

\* Lines 764-768 and 808: without a parsed sample main prints an error and
\* returns, otherwise it calls create_dataset.
MainParsed ==
    /\ created = "parsing"
    /\ next_json = Len(all_json_files)
    /\ created' = IF Len(samples) = 0 THEN "no_samples" ELSE "running"
    /\ UNCHANGED unitVars
    /\ UNCHANGED <<samples, use_all_frames, use_all_views, next_sample, X_list,
                   y_exercise_list, y_posture_list, metadata_list, skipped_no_view,
                   skipped_low_visibility, skipped_unknown_type, processed>>
    /\ UNCHANGED splitVars
    /\ UNCHANGED poseVars

NextParse ==
    \/ MainParseFile
    \/ MainParsed
    \/ CreateDatasetSample
    \/ CreateDatasetReturn
    \/ MainSplit

SpecParse == InitParse /\ [][NextParse]_vars

(***************************************************************************)
(* normalize_coordinates, extract_joint_angles and extract_features.       *)
(* Coordinates are pixel positions, whole numbers.  A computed value is    *)
(* written exactly, as num / (den * sqrt(root)).  Joints are numbered from *)
(* 0 as in KEYPOINT_INDICES.                                               *)
(***************************************************************************)
KEYPOINT_NAMES ==
    << "Nose", "Left Eye", "Right Eye", "Left Ear", "Right Ear",
       "Left Shoulder", "Right Shoulder", "Left Elbow", "Right Elbow",
       "Left Wrist", "Right Wrist", "Left Hip", "Right Hip",
       "Left Knee", "Right Knee", "Left Ankle", "Right Ankle",
       "Neck", "Left Palm", "Right Palm", "Back", "Waist",
       "Left Foot", "Right Foot" >>

KEYPOINT_INDICES(name) ==
    (CHOOSE i \in 1..Len(KEYPOINT_NAMES) : KEYPOINT_NAMES[i] = name) - 1

Joints == 0..(Len(KEYPOINT_NAMES) - 1)

RECURSIVE Gcd(_, _)
Gcd(a, b) == IF b = 0 THEN a ELSE Gcd(b, a % b)

Value(num, den, root) == [num |-> num, den |-> den, root |-> root]

\* A value of the input array, as it is.
Given(x) == Value(x, 1, 1)

\* n / d in lowest terms, for n >= 0 and d > 0.
Quotient(n, d) == Value(n \div Gcd(n, d), d \div Gcd(n, d), 1)

MinOf(S) == CHOOSE m \in S : \A x \in S : m <= x
MaxOf(S) == CHOOSE m \in S : \A x \in S : m >= x

\* coordinates.copy()
Copy(coordinates) ==
    [j \in Joints |-> <<Given(coordinates[j][1]), Given(coordinates[j][2])>>]

visible_mask(visibility) == {j \in Joints : visibility[j] > 0}

\* np.where(range_xy > 0, range_xy, 1.0)
range_xy(min, max) == IF max - min > 0 THEN max - min ELSE 1

\* Variant: the visible joints are divided by the extent without being
\* moved to the corner of the box.
BBoxAxisUnshifted(coordinates, visible, axis, min, max) ==
    [j \in Joints |->
        IF j \in visible
        THEN Quotient(coordinates[j][axis], range_xy(min, max))
        ELSE Given(coordinates[j][axis])]

\* Lines 356-361 for one axis: the visible joints are mapped to
\* (x - min) / range, the others keep their value.
BBoxAxis(coordinates, visible, axis, min, max) ==
    [j \in Joints |->
        IF j \in visible
        THEN Quotient(coordinates[j][axis] - min, range_xy(min, max))
        ELSE Given(coordinates[j][axis])]

BBoxOfAxes(xs, ys) == [j \in Joints |-> <<xs[j], ys[j]>>]

BBox(coordinates, visible) ==
    BBoxOfAxes(
        BBoxAxis(coordinates, visible, 1,
                 MinOf({coordinates[j][1] : j \in visible}),
                 MaxOf({coordinates[j][1] : j \in visible})),
        BBoxAxis(coordinates, visible, 2,
                 MinOf({coordinates[j][2] : j \in visible}),
                 MaxOf({coordinates[j][2] : j \in visible})))

\* Variant: the square of the distance of the hips taken as the scale.
HipAxisSquared(x, l, r, d2) == Value(x + x - l - r, 2 * (IF d2 = 0 THEN 1 ELSE d2), 1)

\* Lines 370-377: (x - (l + r) / 2) / scale with scale the distance of the
\* hips, 1.0 when the hips coincide; written (2x - l - r) / (2 * sqrt(d2)).
HipAxis(x, l, r, d2) == Value(x + x - l - r, 2, IF d2 = 0 THEN 1 ELSE d2)

HipOfHips(coordinates, visible, left_hip, right_hip, d2) ==
    [j \in Joints |->
        IF j \in visible
        THEN <<HipAxis(coordinates[j][1], left_hip[1], right_hip[1], d2),
               HipAxis(coordinates[j][2], left_hip[2], right_hip[2], d2)>>
        ELSE <<Given(coordinates[j][1]), Given(coordinates[j][2])>>]

HipCentered(coordinates, visible, left_hip, right_hip) ==
    HipOfHips(coordinates, visible, left_hip, right_hip,
              (right_hip[1] - left_hip[1]) * (right_hip[1] - left_hip[1])
              + (right_hip[2] - left_hip[2]) * (right_hip[2] - left_hip[2]))

\* Variant: the hip centre is used when one of the two hips is visible.
BothHipsVisibleEither(visibility) ==
    \/ visibility[KEYPOINT_INDICES("Left Hip")] > 0
    \/ visibility[KEYPOINT_INDICES("Right Hip")] > 0

BothHipsVisible(visibility) ==
    /\ visibility[KEYPOINT_INDICES("Left Hip")] > 0
    /\ visibility[KEYPOINT_INDICES("Right Hip")] > 0

normalize_coordinates(coordinates, visibility, method) ==
    IF visible_mask(visibility) = {} THEN Copy(coordinates)
    ELSE IF method = "bbox" THEN BBox(coordinates, visible_mask(visibility))
    ELSE IF method = "hip_center" /\ BothHipsVisible(visibility)
    THEN HipCentered(coordinates, visible_mask(visibility),
                     coordinates[KEYPOINT_INDICES("Left Hip")],
                     coordinates[KEYPOINT_INDICES("Right Hip")])
    ELSE Copy(coordinates)

angle_definitions ==
    << <<"Left Hip", "Left Knee", "Left Ankle">>,
       <<"Right Hip", "Right Knee", "Right Ankle">>,
       <<"Left Shoulder", "Left Elbow", "Left Wrist">>,
       <<"Right Shoulder", "Right Elbow", "Right Wrist">>,
       <<"Left Elbow", "Left Shoulder", "Left Hip">>,
       <<"Right Elbow", "Right Shoulder", "Right Hip">>,
       <<"Left Shoulder", "Left Hip", "Left Knee">>,
       <<"Right Shoulder", "Right Hip", "Right Knee">>,
       <<"Left Shoulder", "Neck", "Right Shoulder">>,
       <<"Left Hip", "Waist", "Right Hip">> >>

\* The angle at p2 between p1 and p3: arccos of the clipped cosine, kept as
\* the three points it is computed from.
calc_angle(p1, p2, p3) == [arccos |-> <<p1, p2, p3>>]

\* Variant: v1 taken from p1 to p2.
cos_angle_reversed(p1, p2, p3) ==
    [dot |-> (p2[1] - p1[1]) * (p3[1] - p2[1]) + (p2[2] - p1[2]) * (p3[2] - p2[2]),
     norms2 |-> ((p1[1] - p2[1]) * (p1[1] - p2[1]) + (p1[2] - p2[2]) * (p1[2] - p2[2]))
                * ((p3[1] - p2[1]) * (p3[1] - p2[1]) + (p3[2] - p2[2]) * (p3[2] - p2[2]))]

\* Lines 398-402 on points at whole pixels: dot is v1 . v2 and norms2 the
\* square of |v1| |v2|.  cos_angle is dot / (sqrt(norms2) + 1e-8); np.clip
\* leaves it as it is, |dot| being at most sqrt(norms2).
cos_angle(p1, p2, p3) ==
    [dot |-> (p1[1] - p2[1]) * (p3[1] - p2[1]) + (p1[2] - p2[2]) * (p3[2] - p2[2]),
     norms2 |-> ((p1[1] - p2[1]) * (p1[1] - p2[1]) + (p1[2] - p2[2]) * (p1[2] - p2[2]))
                * ((p3[1] - p2[1]) * (p3[1] - p2[1]) + (p3[2] - p2[2]) * (p3[2] - p2[2]))]

\* The float 0.0.
Zero == [arccos |-> <<>>]

TripletVisible(visibility, idx1, idx2, idx3) ==
    visibility[idx1] > 0 /\ visibility[idx2] > 0 /\ visibility[idx3] > 0

\* Variant: the angle is computed whether or not the joints are visible.
AngleAtAny(coordinates, visibility, idx1, idx2, idx3) ==
    calc_angle(coordinates[idx1], coordinates[idx2], coordinates[idx3])

\* Lines 424-432.
AngleAt(coordinates, visibility, idx1, idx2, idx3) ==
    IF TripletVisible(visibility, idx1, idx2, idx3)
    THEN calc_angle(coordinates[idx1], coordinates[idx2], coordinates[idx3])
    ELSE Zero

extract_joint_angles(coordinates, visibility) ==
    [t \in 1..Len(angle_definitions) |->
        AngleAt(coordinates, visibility,
                KEYPOINT_INDICES(angle_definitions[t][1]),
                KEYPOINT_INDICES(angle_definitions[t][2]),
                KEYPOINT_INDICES(angle_definitions[t][3]))]

\* coords.flatten(): row after row, x before y.
Flatten(coords) ==
    [i \in 1..(2 * Cardinality(Joints)) |-> coords[(i - 1) \div 2][((i - 1) % 2) + 1]]

ReturnedVector(value) == [raised |-> "no", value |-> value]

\* Variant: the hybrid vector without the angles.
ConcatenateFirst(flat_coords, angles) == flat_coords

\* np.concatenate([flat_coords, angles])
Concatenate(flat_coords, angles) == flat_coords \o angles

FeaturesOf(coords, visibility, feature_type) ==
    IF feature_type = "coordinates" THEN ReturnedVector(Flatten(coords))
    ELSE IF feature_type = "angles"
    THEN ReturnedVector(extract_joint_angles(coords, visibility))
    ELSE IF feature_type = "hybrid"
    THEN ReturnedVector(Concatenate(Flatten(coords),
                               extract_joint_angles(coords, visibility)))
    ELSE [raised |-> "ValueError", value |-> <<>>]

extract_features(kp, feature_type) ==
    FeaturesOf(normalize_coordinates(kp.coordinates, kp.visibility, "bbox"),
               kp.visibility, feature_type)

(***************************************************************************)
(* normalize_coordinates on an array of computed values, as the output of  *)
(* an earlier call is.  The values of the visible joints of one array have *)
(* the same root.                                                          *)
(***************************************************************************)
\* num / (den * sqrt(root)) with num / den in lowest terms.
Reduce(num, den, root) ==
    Value(num \div Gcd(IF num < 0 THEN -num ELSE num, den),
          den \div Gcd(IF num < 0 THEN -num ELSE num, den), root)

Less(a, b) == a.num * b.den < b.num * a.den
Minus(a, b) == Reduce(a.num * b.den - b.num * a.den, a.den * b.den, a.root)
Midpoint(a, b) == Reduce(a.num * b.den + b.num * a.den, 2 * a.den * b.den, a.root)

\* a / b for b > 0 of the root of a, or without root.
Over(a, b) ==
    Reduce(a.num * b.den, a.den * b.num, IF a.root = b.root THEN 1 ELSE a.root)

\* dx * dx + dy * dy, a value without root.
SquaredNorm(dx, dy) ==
    Reduce(dx.num * dx.num * dy.den * dy.den + dy.num * dy.num * dx.den * dx.den,
           dx.den * dx.den * dy.den * dy.den * dx.root, 1)

\* a / sqrt(n2) for a value n2 > 0 without root.
OverRoot(a, n2) == Reduce(a.num * n2.den, a.den, a.root * n2.num * n2.den)

MinValue(S) == CHOOSE m \in S : \A x \in S : ~Less(x, m)
MaxValue(S) == CHOOSE m \in S : \A x \in S : ~Less(m, x)

\* Variant: the extent is taken to be the maximum.
RangeValueMax(min, max) == IF Less(min, max) THEN max ELSE Value(1, 1, 1)

\* Lines 358-359: max - min, 1.0 where that is not above 0.
RangeValue(min, max) == IF Less(min, max) THEN Minus(max, min) ELSE Value(1, 1, 1)

\* Line 361 for one axis.
BBoxAxisValues(values, visible, axis, min, max) ==
    [j \in Joints |->
        IF j \in visible
        THEN Over(Minus(values[j][axis], min), RangeValue(min, max))
        ELSE values[j][axis]]

BBoxValues(values, visible) ==
    BBoxOfAxes(
        BBoxAxisValues(values, visible, 1,
                       MinValue({values[j][1] : j \in visible}),
                       MaxValue({values[j][1] : j \in visible})),
        BBoxAxisValues(values, visible, 2,
                       MinValue({values[j][2] : j \in visible}),
                       MaxValue({values[j][2] : j \in visible})))

\* Lines 373-377 for one coordinate: scale is the root of n2, and 1.0 when it
\* is under 1e-6; the distance of two hips at whole pixels, and of their
\* images under this function, is 0 or at least 1.
HipAxisValue(x, hip_center, n2) ==
    IF n2.num = 0 THEN Minus(x, hip_center)
    ELSE OverRoot(Minus(x, hip_center), n2)

HipOfHipsValues(values, visible, left_hip, right_hip, n2) ==
    [j \in Joints |->
        IF j \in visible
        THEN <<HipAxisValue(values[j][1], Midpoint(left_hip[1], right_hip[1]), n2),
               HipAxisValue(values[j][2], Midpoint(left_hip[2], right_hip[2]), n2)>>
        ELSE values[j]]

HipCenteredValues(values, visible, left_hip, right_hip) ==
    HipOfHipsValues(values, visible, left_hip, right_hip,
                    SquaredNorm(Minus(right_hip[1], left_hip[1]),
                                Minus(right_hip[2], left_hip[2])))

normalize_values(values, visibility, method) ==
    IF visible_mask(visibility) = {} THEN values
    ELSE IF method = "bbox" THEN BBoxValues(values, visible_mask(visibility))
    ELSE IF method = "hip_center" /\ BothHipsVisible(visibility)
    THEN HipCenteredValues(values, visible_mask(visibility),
                           values[KEYPOINT_INDICES("Left Hip")],
                           values[KEYPOINT_INDICES("Right Hip")])
    ELSE values

MaxHidden == 2      \* joints hidden (or left visible) in a drawn mask

\* Four poses: joints spread over the image, joints in one column, all
\* joints at one point, and joints in one column with the right hip and the
\* left knee at the place of the left hip.
Poses ==
    { [j \in Joints |-> <<100 + 10 * (j % 5), 50 + 20 * (j \div 3)>>],
      [j \in Joints |-> <<960, 100 + j>>],
      [j \in Joints |-> <<960, 540>>],
      [j \in Joints |-> <<960, 100 + (IF j \in {12, 13} THEN 11 ELSE j)>>] }

\* The joints a mask may single out: nose, left shoulder, left elbow, the
\* hips, left knee, left ankle, neck and waist.
MaskJoints == {0, 5, 7, 11, 12, 13, 15, 17, 21}

RECURSIVE SetsUpTo(_)
SetsUpTo(k) ==
    IF k = 0 THEN {{}}
    ELSE SetsUpTo(k - 1) \cup {s \cup {a} : s \in SetsUpTo(k - 1), a \in MaskJoints}

\* Masks with at most MaxHidden joints hidden, or at most MaxHidden visible.
Masks ==
    {[j \in Joints |-> IF j \in h THEN 0 ELSE 1] : h \in SetsUpTo(MaxHidden)}
    \cup {[j \in Joints |-> IF j \in h THEN 1 ELSE 0] : h \in SetsUpTo(MaxHidden)}

InitFeatures ==
    /\ keypoint_data \in [coordinates : Poses, visibility : Masks]
    /\ result = [fn |-> "none"]
    /\ pts = <<>>
    /\ TrainIdle
    /\ all_json_files = <<>>
    /\ next_json = 0
    /\ skipped_3d = 0
    /\ target_exercises = exercise_names
    /\ PoseIdle
    /\ FitIdle
    /\ SplitIdle

NormalizeCoordinates ==
    /\ result.fn = "none"
    /\ keypoint_data.coordinates # <<>>
    /\ \E method \in {"bbox", "hip_center"} :
          result' = [fn |-> "normalize_coordinates", arg |-> method,
                     value |-> normalize_coordinates(keypoint_data.coordinates,
                                                     keypoint_data.visibility, method)]
    /\ UNCHANGED <<all_json_files, next_json, skipped_3d, target_exercises,
                   keypoint_data, pts>>
    /\ UNCHANGED <<splitVars, poseVars, fitVars, trainVars>>

ExtractJointAngles ==
    /\ result.fn = "none"
    /\ keypoint_data.coordinates # <<>>
    /\ result' = [fn |-> "extract_joint_angles", arg |-> "",
                  value |-> extract_joint_angles(keypoint_data.coordinates,
                                                 keypoint_data.visibility)]
    /\ UNCHANGED <<all_json_files, next_json, skipped_3d, target_exercises,
                   keypoint_data, pts>>
    /\ UNCHANGED <<splitVars, poseVars, fitVars, trainVars>>

ExtractFeatures ==
    /\ result.fn = "none"
    /\ keypoint_data.coordinates # <<>>
    /\ \E feature_type \in {"coordinates", "angles", "hybrid", "polar"} :
       \E r \in {extract_features(keypoint_data, feature_type)} :
          result' = [fn |-> "extract_features", arg |-> feature_type,
                     raised |-> r.raised, value |-> r.value]
    /\ UNCHANGED <<all_json_files, next_json, skipped_3d, target_exercises,
                   keypoint_data, pts>>
    /\ UNCHANGED <<splitVars, poseVars, fitVars, trainVars>>

\* normalize_coordinates called on its own output, with the same mask and
\* method: first is the output of the call on the given array, again the
\* output of the call on first.
NormalizeAgain ==
    /\ result.fn = "normalize_coordinates"
    /\ \E first \in {normalize_values(Copy(keypoint_data.coordinates),
                                       keypoint_data.visibility, result.arg)} :
          result' = [fn |-> "normalize_again", arg |-> result.arg,
                     value |-> result.value, first |-> first,
                     again |-> normalize_values(first, keypoint_data.visibility,
                                                result.arg)]
    /\ UNCHANGED <<all_json_files, next_json, skipped_3d, target_exercises,
                   keypoint_data, pts>>
    /\ UNCHANGED <<splitVars, poseVars, fitVars, trainVars>>

NextFeatures ==
    \/ NormalizeCoordinates
    \/ NormalizeAgain
    \/ ExtractJointAngles
    \/ ExtractFeatures

SpecFeatures == InitFeatures /\ [][NextFeatures]_vars

(***************************************************************************)
(* parse_keypoints_from_pts.  A json value is a record: null, a number, or *)
(* the object of a point with its 'x' and 'y' entries, an entry being a    *)
(* json value or absent.  pts maps the keys it has to their values.        *)
(***************************************************************************)
Absent == [json |-> "absent"]
Null == [json |-> "null"]
Number(n) == [json |-> "number", value |-> n]
Object(x, y) == [json |-> "object", x |-> x, y |-> y]

\* float(x_val) of a json number.
Float(v) == v.value

\* Line 235: pt is an object that is not empty and has 'x' and 'y'.
HasXY(pt) ==
    /\ pt.json = "object"
    /\ pt.x # Absent
    /\ pt.y # Absent

\* Lines 235-239.
PointGiven(pt) == HasXY(pt) /\ pt.x # Null /\ pt.y # Null

\* Variant: line 241 one level out, a joint is visible when its name is a
\* key of pts.
KeypointOfKey(pts_dict, kp_name) ==
    IF kp_name \in DOMAIN pts_dict
    THEN [coordinates |->
             IF PointGiven(pts_dict[kp_name])
             THEN <<Float(pts_dict[kp_name].x), Float(pts_dict[kp_name].y)>>
             ELSE <<0, 0>>,
          visibility |-> 1]
    ELSE [coordinates |-> <<0, 0>>, visibility |-> 0]

\* Lines 233-241 for the joint of one name.
KeypointOf(pts_dict, kp_name) ==
    IF kp_name \in DOMAIN pts_dict /\ PointGiven(pts_dict[kp_name])
    THEN [coordinates |-> <<Float(pts_dict[kp_name].x), Float(pts_dict[kp_name].y)>>,
          visibility |-> 1]
    ELSE [coordinates |-> <<0, 0>>, visibility |-> 0]

parse_keypoints_from_pts(pts_dict) ==
    [coordinates |-> [j \in Joints |->
                         KeypointOf(pts_dict, KEYPOINT_NAMES[j + 1]).coordinates],
     visibility |-> [j \in Joints |->
                         KeypointOf(pts_dict, KEYPOINT_NAMES[j + 1]).visibility]]

\* What the entry of a joint may be instead of a point with two numbers.
PointVariants ==
    { Null, Object(Absent, Absent), Object(Number(7), Absent),
      Object(Absent, Number(7)), Object(Null, Number(7)),
      Object(Number(7), Null), Object(Null, Null), Object(Number(0), Number(0)) }

\* A key that is not a keypoint name.
OtherKey == "Tail"

\* The pts of a pose in which every joint has its two numbers.
FullPts(pose) ==
    [k \in Range(KEYPOINT_NAMES) |->
        Object(Number(pose[KEYPOINT_INDICES(k)][1]),
               Number(pose[KEYPOINT_INDICES(k)][2]))]

\* pts with the joints of h left out.
Without(full, h) ==
    [k \in {n \in DOMAIN full : KEYPOINT_INDICES(n) \notin h} |-> full[k]]

\* pts with the joints of h given as the variant.
Varied(full, h, variant) ==
    [k \in DOMAIN full |-> IF KEYPOINT_INDICES(k) \in h THEN variant ELSE full[k]]

WithOther(p) ==
    [k \in DOMAIN p \cup {OtherKey} |->
        IF k = OtherKey THEN Object(Number(3), Number(4)) ELSE p[k]]

PtsOfPose(pose) ==
    {Without(FullPts(pose), h) : h \in SetsUpTo(MaxHidden) \cup {Joints}}
    \cup {Varied(FullPts(pose), h, variant) :
             h \in SetsUpTo(MaxHidden), variant \in PointVariants}

PtsDrawn ==
    UNION {{p, WithOther(p)} : p \in UNION {PtsOfPose(pose) : pose \in Poses}}

InitKeypoints ==
    /\ pts \in PtsDrawn
    /\ TrainIdle
    /\ keypoint_data = [coordinates |-> <<>>, visibility |-> <<>>]
    /\ result = [fn |-> "none"]
    /\ all_json_files = <<>>
    /\ next_json = 0
    /\ skipped_3d = 0
    /\ target_exercises = exercise_names
    /\ PoseIdle
    /\ FitIdle
    /\ SplitIdle

ParseKeypoints ==
    /\ result.fn = "none"
    /\ keypoint_data.coordinates = <<>>
    /\ keypoint_data' = parse_keypoints_from_pts(pts)
    /\ result' = [fn |-> "parse_keypoints_from_pts"]
    /\ UNCHANGED <<all_json_files, next_json, skipped_3d, target_exercises, pts>>
    /\ UNCHANGED <<splitVars, poseVars, fitVars, trainVars>>

NextKeypoints == ParseKeypoints

SpecKeypoints == InitKeypoints /\ [][NextKeypoints]_vars

(***************************************************************************)
(* train_posture_classifier.py: the epoch loop of main with its early      *)
(* stopping and best-model checkpoint, and the load after the loop.        *)
(* The multitask branch (lines 535-600) and the single-task branch (lines  *)
(* 741-785) have the same loop; they differ in the metric compared and in  *)
(* the name of the checkpoint file.                                        *)
(***************************************************************************)
MaxEpochs == 3      \* largest --epochs drawn
MaxPatience == 2    \* largest --early_stopping drawn
MaxF1 == 2          \* F1 levels 0..MaxF1 of an evaluation; level 0 is F1 = 0.0

F1Levels == 0..MaxF1

\* An F1 level counted in halves of a level, the unit in which best_val_f1
\* and the history are kept, so that the mean of line 569 stays an integer.
Halves(f1) == 2 * f1

\* Line 569: combined_f1 = (exercise_f1 + posture_f1) / 2, in halves.
combined_f1(exercise_f1, posture_f1) == (Halves(exercise_f1) + Halves(posture_f1)) \div 2

\* The metric of one epoch's validation: evaluate_multitask gives the two F1
\* values (lines 344-346), evaluate the binary F1 (line 228).
ValMetrics ==
    IF model_type = "multitask"
    THEN {combined_f1(e, q) : e \in F1Levels, q \in F1Levels}
    ELSE {Halves(f) : f \in F1Levels}

\* Lines 454-455: output_dir is created when missing and kept when it exists,
\* so it may hold the checkpoint of an earlier run.
InitTrain ==
    /\ model_type \in {"multitask", "mlp"}
    /\ epochs \in 0..MaxEpochs
    /\ early_stopping \in 1..MaxPatience
    /\ history = <<>>
    /\ best_val_f1 = 0
    /\ patience_counter = 0
    /\ stopped = FALSE
    /\ best_model_pth \in {NoFile, Checkpoint("earlier", 0, Halves(1))}
    /\ checkpoint = NotLoaded
    /\ raised = ""
    /\ all_json_files = <<>>
    /\ next_json = 0
    /\ skipped_3d = 0
    /\ target_exercises = exercise_names
    /\ keypoint_data = [coordinates |-> <<>>, visibility |-> <<>>]
    /\ result = [fn |-> "none"]
    /\ pts = <<>>
    /\ PoseIdle
    /\ FitIdle
    /\ SplitIdle

\* The for loop has ended: by its break or by running out of epochs.
LoopEnded == stopped \/ Len(history) = epochs

\* Lines 542-593 (744-780): one pass of the epoch loop.  epoch is the 0-based
\* index Len(history) of the pass.
TrainEpoch ==
    /\ ~LoopEnded
    /\ \E val_f1 \in ValMetrics :
          /\ history' = Append(history, val_f1)
          /\ IF val_f1 > best_val_f1
             THEN /\ best_val_f1' = val_f1
                  /\ patience_counter' = 0
                  /\ best_model_pth' = Checkpoint("this", Len(history), val_f1)
                  /\ UNCHANGED stopped
             ELSE /\ patience_counter' = patience_counter + 1
                  /\ stopped' = (patience_counter + 1 >= early_stopping)
                  /\ UNCHANGED <<best_val_f1, best_model_pth>>
    /\ UNCHANGED <<model_type, epochs, early_stopping, checkpoint, raised>>
    /\ UNCHANGED <<all_json_files, next_json, skipped_3d, target_exercises,
                   keypoint_data, result, pts>>
    /\ UNCHANGED <<splitVars, poseVars, fitVars>>

\* Lines 596-597 (783-784): torch.load of the checkpoint file; it raises
\* FileNotFoundError when the file is not there.
LoadBest ==
    /\ LoopEnded
    /\ checkpoint = NotLoaded
    /\ raised = ""
    /\ IF best_model_pth = NoFile
       THEN /\ raised' = "FileNotFoundError"
            /\ UNCHANGED checkpoint
       ELSE /\ checkpoint' = best_model_pth
            /\ UNCHANGED raised
    /\ UNCHANGED <<model_type, epochs, early_stopping, history, best_val_f1,
                   patience_counter, stopped, best_model_pth>>
    /\ UNCHANGED <<all_json_files, next_json, skipped_3d, target_exercises,
                   keypoint_data, result, pts>>
    /\ UNCHANGED <<splitVars, poseVars, fitVars>>

NextTrain ==
    \/ TrainEpoch
    \/ LoadBest

SpecTrain == InitTrain /\ [][NextTrain]_vars

(***************************************************************************)
(* Inputs drawn for split_dataset.                                         *)
(***************************************************************************)
Tenths == {1, 5, 8, 9}

RECURSIVE Labels(_, _)
Labels(counts, c) ==
    IF counts = <<>> THEN <<>>
    ELSE [i \in 1..Head(counts) |-> c] \o Labels(Tail(counts), c + 1)

\* k classes: the first k-1 hold r samples each, the last one the rest.
Shape(n, k, r) == [i \in 1..k |-> IF i < k THEN r ELSE n - (k - 1) * r]

\* Below SmallSampleLimit the labels are not read, so one class is drawn there.
Shapes ==
    {Shape(n, 1, 1) : n \in 1..MaxN}
    \cup {Shape(n, k, r) : n \in SmallSampleLimit..MaxN, k \in 2..MaxClasses,
                           r \in 1..MaxRare}
    \cup {<<20, 20, 20, 20, 20>>}

ValidShape(c) == \A i \in 1..Len(c) : c[i] >= 1

InitSplit ==
    /\ \E c \in {sh \in Shapes : ValidShape(sh)} :
          /\ y_exercise = Labels(c, 0)
          /\ X = Arange(SumSeq(c))
          /\ metadata = Arange(SumSeq(c))
          /\ y_posture = [i \in 1..SumSeq(c) |-> i % 2]
    /\ test_size \in Tenths
    /\ val_size \in Tenths
    /\ random_state \in 0..MaxSeed
    /\ np_random \in {0, 1}
    /\ stdout = <<>>
    /\ dataset = NotCalled
    /\ previous = NotCalled
    /\ calls = 0
    /\ PoseIdle
    /\ FitIdle
    /\ UnitIdle

\* One call of split_dataset on the arrays; the run is then repeated once on
\* the same arguments, in the same process.
CallSplit ==
    /\ created = "idle"
    /\ calls < 2
    /\ \E r \in {split_dataset(X, y_exercise, y_posture, metadata,
                              test_size, val_size, random_state, np_random)} :
          /\ dataset' = r.dataset
          /\ stdout' = stdout \o r.printed
          /\ np_random' = r.np_random
    /\ previous' = dataset
    /\ calls' = calls + 1
    /\ UNCHANGED <<X, y_exercise, y_posture, metadata, test_size, val_size,
                   random_state>>
    /\ UNCHANGED poseVars
    /\ UNCHANGED fitVars
    /\ UNCHANGED unitVars

SpecSplit == InitSplit /\ [][CallSplit]_vars

\* The assembly of the training arrays: split_dataset on the inputs drawn
\* above, and main's path from create_dataset to split_dataset.
InitAssemble == InitSplit \/ InitFitness

NextAssemble ==
    \/ CallSplit
    \/ CreateDatasetSample
    \/ CreateDatasetReturn
    \/ MainSplit

SpecAssemble == InitAssemble /\ [][NextAssemble]_vars

(***************************************************************************)
(* Properties of split_dataset.                                            *)
(***************************************************************************)
N == Len(X)
Returned == calls >= 1 /\ dataset.status = "returned"
AllRows == dataset.train.X \o dataset.val.X \o dataset.test.X
Occurrences(seq, x) == Cardinality({p \in 1..Len(seq) : seq[p] = x})
Abs(a) == IF a < 0 THEN -a ELSE a
ClassCount(c) == Occurrences(y_exercise, c)
CountIn(part, c) == Occurrences(part.y_exercise, c)

\* C1: whenever split_dataset returns, train, val and test are pairwise
\* disjoint and together hold every input sample exactly once.
C1_DisjointExhaustive ==
    Returned =>
        /\ Len(AllRows) = N
        /\ \A i \in 1..N : Occurrences(AllRows, X[i]) = 1

\* C2: a repeated call with identical arguments returns exactly the same
\* partitions (or fails the same way), whatever state the global generator
\* was left in by the first call.
C2_Deterministic == calls = 2 => dataset = previous

C2_Witness ==
    /\ calls = 2
    /\ dataset.status = "returned"
    /\ N < SmallSampleLimit
    /\ Len(dataset.train.X) >= 2
    /\ dataset.train.X # SubSeq(X, 1, Len(dataset.train.X))
    /\ np_random # RandomState(random_state)

\* One partition is index-aligned: its four arrays have one length and
\* position p of each describes the input row X[p] came from.
Aligned(part) ==
    /\ Len(part.y_exercise) = Len(part.X)
    /\ Len(part.y_posture) = Len(part.X)
    /\ Len(part.metadata) = Len(part.X)
    /\ \A p \in 1..Len(part.X) :
          \E i \in 1..N :
              /\ part.X[p] = X[i]
              /\ part.metadata[p] = metadata[i]
              /\ part.y_exercise[p] = y_exercise[i]
              /\ part.y_posture[p] = y_posture[i]

SplitAligned ==
    Returned => Aligned(dataset.train) /\ Aligned(dataset.val) /\ Aligned(dataset.test)

\* One row of create_dataset: features, labels and metadata come from the
\* same view of the same frame of the same sample.
RowAligned(x, ye, yp, m) ==
    /\ x.file_name = m.file_name
    /\ x.frame_idx = m.frame_idx
    /\ x.view = m.view
    /\ ye = m.exercise_id
    /\ yp = (IF m.is_correct THEN 1 ELSE 0)
    /\ \E i \in 1..Len(samples) :
          /\ samples[i].file_name = m.file_name
          /\ samples[i].exercise_type \in DOMAIN exercise_id_map
          /\ exercise_id_map[samples[i].exercise_type] = ye
          /\ samples[i].is_correct = m.is_correct
          /\ m.frame_idx < Len(samples[i].frames)
          /\ m.view \in DOMAIN samples[i].frames[m.frame_idx + 1].keypoints
          /\ x.visible = samples[i].frames[m.frame_idx + 1].keypoints[m.view]

ListsAligned(xs, yes, yps, ms) ==
    /\ Len(yes) = Len(xs)
    /\ Len(yps) = Len(xs)
    /\ Len(ms) = Len(xs)
    /\ \A p \in 1..Len(xs) : RowAligned(xs[p], yes[p], yps[p], ms[p])

CreatedAligned ==
    /\ created = "running" =>
          ListsAligned(X_list, y_exercise_list, y_posture_list, metadata_list)
    /\ created = "returned" =>
          /\ ListsAligned(X, y_exercise, y_posture, metadata)
          /\ Returned =>
                /\ ListsAligned(dataset.train.X, dataset.train.y_exercise,
                                dataset.train.y_posture, dataset.train.metadata)
                /\ ListsAligned(dataset.val.X, dataset.val.y_exercise,
                                dataset.val.y_posture, dataset.val.metadata)
                /\ ListsAligned(dataset.test.X, dataset.test.y_exercise,
                                dataset.test.y_posture, dataset.test.metadata)

\* C3: in every partition split_dataset returns and in the arrays
\* create_dataset returns, the four arrays have one length and position i of
\* each describes the same original sample (file, frame and view).
C3_IndexAligned == SplitAligned /\ CreatedAligned

\* main has split the rows create_dataset gathered from two files with
\* different labels, and the shuffle has moved them.
C3_Witness ==
    /\ created = "returned"
    /\ Returned
    /\ Len(X) >= 3
    /\ \E p, q \in 1..Len(X) :
          /\ metadata[p].file_name # metadata[q].file_name
          /\ y_exercise[p] # y_exercise[q]
          /\ y_posture[p] # y_posture[q]
    /\ Len(dataset.train.X) >= 2
    /\ dataset.train.X # SubSeq(X, 1, Len(dataset.train.X))

\* The try branch ran to its end: both stratified steps succeeded.
StratifiedOk == Returned /\ N >= SmallSampleLimit /\ stdout = <<>>

\* The class's count in the partition is within k samples of its
\* proportional share of the partition.
WithinRounding(k, part, c) ==
    Abs(CountIn(part, c) * N - ClassCount(c) * Len(part.X)) <= k * N

StratifiedSizes ==
    /\ Len(dataset.test.X) = CeilDiv(test_size * N, 10)
    /\ Abs(10 * Len(dataset.test.X) - test_size * N) < 10
    /\ Len(dataset.val.X)
         - CeilDiv(val_size * (N - Len(dataset.test.X)), 10 - test_size) \in {0, 1}
    /\ Abs(10 * Len(dataset.val.X) - val_size * N) < 20
    /\ Len(dataset.train.X) = N - Len(dataset.test.X) - Len(dataset.val.X)

StratifiedProportions ==
    \A c \in Range(y_exercise) :
        /\ WithinRounding(1, dataset.test, c)
        /\ WithinRounding(2, dataset.val, c)
        /\ WithinRounding(2, dataset.train, c)

EveryClassEverywhere ==
    \A c \in Range(y_exercise) :
        /\ CountIn(dataset.train, c) >= 1
        /\ CountIn(dataset.val, c) >= 1
        /\ CountIn(dataset.test, c) >= 1

BalancedExample ==
    /\ N = 100
    /\ Range(y_exercise) = 0..4
    /\ \A c \in 0..4 : ClassCount(c) = 20
    /\ test_size = 1
    /\ val_size = 1

\* C4 as stated: with every class holding at least 6 samples (twice the
\* number of partitions) and stratification succeeding, sizes and class
\* proportions are kept and every class appears in all three partitions.
C4_Original ==
    (StratifiedOk /\ \A c \in Range(y_exercise) : ClassCount(c) >= 6) =>
        /\ StratifiedSizes
        /\ StratifiedProportions
        /\ EveryClassEverywhere
        /\ BalancedExample =>
              /\ Len(dataset.test.X) = 10
              /\ Len(dataset.val.X) = 10
              /\ Len(dataset.train.X) = 80

\* C4: when both stratified steps succeed, test holds
\* ceil(test_size * n) samples, val ceil(val_ratio * (n - test)) (one more when
\* the double val_ratio rounds up), train the rest; each class is within one
\* sample of its share in test and within two in val and train; in the
\* balanced 100-sample example the sizes are 10/10/80 with 2/2/16 per class.
\* A class may be missing from a partition otherwise.
C4_Stratified ==
    StratifiedOk =>
        /\ StratifiedSizes
        /\ StratifiedProportions
        /\ BalancedExample =>
              /\ Len(dataset.test.X) = 10
              /\ Len(dataset.val.X) = 10
              /\ Len(dataset.train.X) = 80
              /\ \A c \in 0..4 :
                    /\ CountIn(dataset.test, c) = 2
                    /\ CountIn(dataset.val, c) = 2
                    /\ CountIn(dataset.train, c) = 16

C4_Witness ==
    /\ StratifiedOk
    /\ test_size = 1
    /\ val_size = 1
    /\ Cardinality(Range(y_exercise)) = 3
    /\ \A c \in Range(y_exercise) : ClassCount(c) >= 6
    /\ ~EveryClassEverywhere

C4_ExampleReached == StratifiedOk /\ BalancedExample

\* The line split_dataset prints when it leaves the try branch.
FallbackLines == [i \in 1..calls |-> "stratified_split_failed"]
ClassTooSmall == \E c \in Range(y_exercise) : ClassCount(c) < 2
SeededPermutation == Shuffled(Arange(N), RandomState(random_state)).arr

\* C5 as stated: whenever a class is too small to stratify, the fallback
\* still returns a full result and leaves its warning.
C5_Original ==
    (calls >= 1 /\ N >= SmallSampleLimit /\ ClassTooSmall) =>
        /\ dataset.status = "returned"
        /\ stdout = FallbackLines

\* C5: for n >= 20 the warning line is printed exactly when the
\* stratified attempt failed, and it is printed whenever a class has a single
\* member; if then test_size + val_size < 1 (sizes in tenths), a full result
\* is returned whose test partition is the head of the seeded permutation of
\* all samples (none of the stratified attempt is kept), with the sizes of the
\* two proportions.  With test_size + val_size >= 1 the second fallback step
\* raises ValueError and nothing is returned.
C5_Fallback ==
    (calls >= 1 /\ N >= SmallSampleLimit) =>
        /\ stdout \in {<<>>, FallbackLines}
        /\ ClassTooSmall => stdout = FallbackLines
        /\ (stdout = <<>>) => dataset.status = "returned"
        /\ (stdout = FallbackLines /\ test_size + val_size < 10) =>
              /\ dataset.status = "returned"
              /\ Len(dataset.test.X) = CeilDiv(test_size * N, 10)
              /\ dataset.test.X = SubSeq(SeededPermutation, 1, Len(dataset.test.X))
              /\ Len(dataset.val.X)
                   - CeilDiv(val_size * (N - Len(dataset.test.X)), 10 - test_size)
                       \in {0, 1}
              /\ Len(AllRows) = N
              /\ \A i \in 1..N : Occurrences(AllRows, X[i]) = 1
        /\ (stdout = FallbackLines /\ test_size + val_size >= 10) =>
              dataset.status = "ValueError"

C5_Witness ==
    /\ calls >= 1
    /\ N >= SmallSampleLimit
    /\ ~ClassTooSmall
    /\ stdout = FallbackLines
    /\ dataset.status = "returned"
    /\ Cardinality(Range(y_exercise)) >= 2

\* C6 as stated: below 20 samples each partition receives at least one
\* sample, test = max(1, floor(n * test_size)), val = max(1, floor(n *
\* val_size)), train the rest.
C6_Original ==
    (Returned /\ N < SmallSampleLimit) =>
        /\ Len(dataset.test.X) = Max(1, (N * test_size) \div 10)
        /\ Len(dataset.val.X) = Max(1, (N * val_size) \div 10)
        /\ Len(dataset.train.X) = N - Len(dataset.test.X) - Len(dataset.val.X)
        /\ Len(dataset.train.X) >= 1
        /\ Len(dataset.val.X) >= 1
        /\ Len(dataset.test.X) >= 1

\* C6: below 20 samples the partitions are cuts of one seeded shuffle by the
\* counts n_test = max(1, floor(n * test_size)), n_val = max(1, floor(n *
\* val_size)) and n_train = n - n_test - n_val.  test always holds n_test
\* samples (at least 1).  When n_train >= 0 the cuts are consecutive: train
\* first with n_train samples (none when the two counts add up to n), then
\* val with n_val (at least 1), then test; with test_size = val_size = 0.1
\* and n >= 3 all three are non-empty.  When n_train < 0 val is empty and
\* train holds the first 2n - n_test - n_val samples of the shuffle.
C6_SmallSplit ==
    (Returned /\ N < SmallSampleLimit) =>
        LET n_test == Max(1, (N * test_size) \div 10)
            n_val == Max(1, (N * val_size) \div 10)
            n_train == N - n_test - n_val
        IN /\ Len(dataset.test.X) = n_test
           /\ Len(dataset.test.X) >= 1
           /\ stdout = [i \in 1..calls |-> "too_few_samples"]
           /\ n_train >= 0 =>
                 /\ Len(dataset.val.X) = n_val
                 /\ Len(dataset.val.X) >= 1
                 /\ Len(dataset.train.X) = n_train
                 /\ AllRows = SeededPermutation
           /\ (N >= 3 /\ test_size = 1 /\ val_size = 1) =>
                 Len(dataset.train.X) >= 1
           /\ n_train < 0 =>
                 /\ Len(dataset.val.X) = 0
                 /\ dataset.train.X
                      = SubSeq(SeededPermutation, 1, 2 * N - n_test - n_val)
                 /\ dataset.test.X
                      = SubSeq(SeededPermutation, N - n_test + 1, N)

\* Two samples with the default sizes: val and test take one each and train
\* is left empty.
C6_Witness ==
    /\ Returned
    /\ N = 2
    /\ test_size = 1
    /\ val_size = 1
    /\ Len(dataset.train.X) = 0
    /\ Len(dataset.val.X) = 1
    /\ Len(dataset.test.X) = 1


(***************************************************************************)
(* Claims about the pose-estimation passes.                                *)
(***************************************************************************)
PassDone == pose_result \notin {"idle", "running"}

Valid2D == {k \in 1..Len(files_2d) :
              files_2d[k].ok /\ files_2d[k].joints = NUM_JOINTS}
Valid3D == {f \in files_3d : f.ok /\ f.joints = NUM_JOINTS}

Rows == 1..Len(data_2d)
Paired2D == {data_2d[r].src : r \in Rows}
Paired3D == {data_3d[r].src : r \in Rows}

\* C7: the parsers never hand the pipeline a record whose joint count is not
\* 24, so every row a pass has gathered is a 24-joint skeleton.
C7_OnlyFullSkeletons ==
    /\ \A r \in 1..Len(data_2d) : data_2d[r].joints = NUM_JOINTS
    /\ \A r \in 1..Len(data_3d) : data_3d[r].joints = NUM_JOINTS

\* C8 as stated: after a pass the number of matched pairs is at most the
\* number of valid 2D records and at most the number of valid 3D records.
C8_Original ==
    PassDone => /\ matched <= Cardinality(Valid2D)
                /\ matched <= Cardinality(Valid3D)

\* The files each script's parser accepts.
Accepted2D ==
    IF program = "process_dataset"
    THEN {Name2D(files_2d[k]) : k \in {j \in Valid2D : files_2d[j].parts >= 4}}
    ELSE {Name2D(files_2d[k]) :
            k \in {j \in 1..Len(files_2d) : files_2d[j].ok /\ files_2d[j].joints > 0}}
Accepted3D ==
    IF program = "process_dataset"
    THEN {Path3D(f) : f \in Valid3D}
    ELSE {Path3D(f) : f \in {g \in files_3d : g.ok}}

\* C8: after a pass the number of matched pairs is at most the number of 2D
\* files the parser accepted, every 2D file giving at most one pair, and the
\* 3D files that occur in the pairs are files the 3D parser accepts, so the
\* number of distinct 3D files paired is at most the number of accepted 3D
\* files; in process_dataset the accepted files are valid 24-joint records.
\* The pair count itself is not bounded by the number of 3D records.
C8_MatchedBounded ==
    PassDone =>
        /\ matched = Len(data_2d) /\ matched = Len(data_3d)
        /\ Cardinality(Paired2D) = matched
        /\ Paired2D \subseteq Accepted2D
        /\ Paired3D \subseteq Accepted3D
        /\ matched <= Cardinality(Accepted2D)
        /\ Cardinality(Paired3D) <= Cardinality(Accepted3D)
        /\ program = "process_dataset" =>
              /\ matched <= Cardinality(Valid2D)
              /\ Cardinality(Paired3D) <= Cardinality(Valid3D)

\* A pass that ended with more pairs than there are valid 3D records.
C8_Witness ==
    /\ PassDone
    /\ program = "process_dataset"
    /\ matched = 2
    /\ Cardinality(Valid3D) = 1
    /\ Cardinality(Valid2D) = 2

SameKey(a, b) == a.frame = b.frame

\* C9 as stated: the matching is one-to-one, no 3D file is paired with two
\* 2D records.
C9_Original ==
    \A r1, r2 \in Rows : data_3d[r1].src = data_3d[r2].src => r1 = r2

\* C9: every 2D record is paired with at most one 3D file, the file of its
\* own (action, actor, frame) key; a 3D file is paired with several 2D
\* records only when those records have the same key, that is differ in
\* camera number alone.
C9_OnePerRecord ==
    /\ Len(data_2d) = Len(data_3d)
    /\ \A r1, r2 \in Rows : data_2d[r1].src = data_2d[r2].src => r1 = r2
    /\ \A r \in Rows : SameKey(data_2d[r].src, data_3d[r].src)
    /\ \A r1, r2 \in Rows :
          data_3d[r1].src = data_3d[r2].src =>
              SameKey(data_2d[r1].src, data_2d[r2].src)

\* Two 2D files that differ only in camera number, both paired with one 3D file.
C9_Witness ==
    \E r1, r2 \in Rows :
        /\ r1 # r2
        /\ data_3d[r1].src = data_3d[r2].src
        /\ data_2d[r1].src.camera # data_2d[r2].src.camera
        /\ data_2d[r1].src.frame = data_2d[r2].src.frame

\* C10: every file that was found and gave no training row is counted under
\* a rejection reason, so the files found are the rows plus the tallies.
C10_AllTallied ==
    PassDone =>
        Len(files_2d) = matched + skipped_2d + skipped_3d_not_found + skipped_3d_parse

\* The files of the corpus that are malformed: not readable, a joint list
\* that is not 24 long, or (2D) a name without its identity parts.
Bad2D == {k \in 1..Len(files_2d) : k \notin Valid2D \/ files_2d[k].parts < 4}
Bad3D == files_3d \ Valid3D

\* A valid 2D file whose 3D file, at the path of its key, is valid too.
ValidPairs ==
    {k \in (1..Len(files_2d)) \ Bad2D :
        \E f \in Valid3D : f \in DirectPath(files_2d[k].action, files_2d[k].actor,
                                           files_2d[k].frame)}

\* C11: a corpus with exactly one malformed file, the others valid, does not
\* abort the pass: the pass ends with an output, and the output holds rows of
\* the valid files only.
C11_SingleBadFileSkipped ==
    (PassDone /\ Cardinality(Bad2D) + Cardinality(Bad3D) = 1 /\ ValidPairs # {})
        => /\ pose_result \in {"returned", "saved"}
           /\ matched >= 1
           /\ \A r \in Rows : data_2d[r].joints = NUM_JOINTS

(***************************************************************************)
(* Claims about runs that gather no sample.                                *)
(***************************************************************************)
MainDone == program = "main" /\ PassDone

\* C12: a corpus that yields no sample gets no output, and it does not keep
\* the samples of the other corpus from being written: main of
\* preprocess_full.py ends without an archive only when neither the Training
\* nor the Validation pass yielded a pair, and saves otherwise.
C12_EmptyCorpusIsolated ==
    MainDone =>
        /\ (Len(train_2d) = 0 /\ Len(data_2d) = 0) => pose_result = "no_data"
        /\ (Len(train_2d) > 0 \/ Len(data_2d) > 0) => pose_result = "saved"

(***************************************************************************)
(* Claims about parse_json_file.                                           *)
(***************************************************************************)
\* The file a parsed sample was read from.
FileOf(sample) == all_json_files[sample.file_name]

\* C13: the is_correct of a parsed sample is true if and only if the
\* condition list of its file is non-empty and the value of every condition
\* is the boolean true.
C13_IsCorrectIffAllTrue ==
    \A s \in 1..Len(samples) :
        samples[s].is_correct <=>
            /\ FileOf(samples[s]).conditions # <<>>
            /\ \A i \in 1..Len(FileOf(samples[s]).conditions) :
                  FileOf(samples[s]).conditions[i] = "true"

(***************************************************************************)
(* Claims about the class ids.                                             *)
(***************************************************************************)
num_exercise_types == Cardinality(DOMAIN exercise_id_map)

\* C14: the id map of the run's class list is a bijection between the listed
\* names and 0..K-1, K the number of entries of the map, and every id put in
\* y_exercise lies in 0..K-1.
C14_DenseIds ==
    /\ DOMAIN exercise_id_map = Range(target_exercises)
    /\ {exercise_id_map[name] : name \in DOMAIN exercise_id_map}
           = 0..(num_exercise_types - 1)
    /\ \A i \in 1..Len(y_exercise_list) :
          y_exercise_list[i] \in 0..(num_exercise_types - 1)
    /\ \A i \in 1..Len(y_exercise) : y_exercise[i] \in 0..(num_exercise_types - 1)

(***************************************************************************)
(* Claims about the names of the exercises.                                *)
(***************************************************************************)
ExactKeys(name) ==
    {k \in 1..Len(EXERCISE_NAME_MAP) : EXERCISE_NAME_MAP[k].kr = name}
ContainKeys(name) ==
    {k \in 1..Len(EXERCISE_NAME_MAP) :
        \/ IsSubstring(EXERCISE_NAME_MAP[k].kr, name)
        \/ IsSubstring(name, EXERCISE_NAME_MAP[k].kr)}

\* The files the parse loop has handed to parse_json_file and that were read.
ParsedFiles ==
    {k \in 1..next_json : ~all_json_files[k].is3d /\ all_json_files[k].ok}
SamplesOf(k) == {s \in 1..Len(samples) : samples[s].file_name = k}

\* C15: a name that is a key of the table resolves to the value of that key;
\* any other name resolves to the value of a key that is in the name or
\* holds the name, the first such key of the table; a name without either
\* resolves to no class, and its file gives no sample.  A sample carries the
\* class its file's name resolves to.
C15_ExactThenContained ==
    \A k \in ParsedFiles :
        LET name == all_json_files[k].exercise
            en == get_english_exercise_name(name)
        IN /\ ExactKeys(name) # {} =>
                 \A e \in ExactKeys(name) : en = EXERCISE_NAME_MAP[e].en
           /\ (ExactKeys(name) = {} /\ ContainKeys(name) # {}) =>
                 \E c \in ContainKeys(name) :
                    /\ en = EXERCISE_NAME_MAP[c].en
                    /\ \A d \in ContainKeys(name) : c <= d
           /\ (ExactKeys(name) = {} /\ ContainKeys(name) = {}) =>
                 en = None /\ SamplesOf(k) = {}
           /\ \A s \in SamplesOf(k) : samples[s].exercise_type = en

\* A name that is no key but holds one gave a sample, and a file with a
\* name that matches nothing was passed over.
C15_Witness ==
    /\ \E k \in ParsedFiles :
          /\ ExactKeys(all_json_files[k].exercise) = {}
          /\ ContainKeys(all_json_files[k].exercise) # {}
          /\ SamplesOf(k) # {}
    /\ \E k \in ParsedFiles :
          /\ ContainKeys(all_json_files[k].exercise) = {}
          /\ SamplesOf(k) = {}

(***************************************************************************)
(* Claims about the feature functions.                                     *)
(***************************************************************************)
Normalized(method) == result.fn = "normalize_coordinates" /\ result.arg = method
Visible == visible_mask(keypoint_data.visibility)
Hidden == Joints \ Visible
InUnit(v) == v.root = 1 /\ v.den > 0 /\ 0 <= v.num /\ v.num <= v.den
Coincide(axis) ==
    \A i, j \in Visible :
        keypoint_data.coordinates[i][axis] = keypoint_data.coordinates[j][axis]

\* C16: under 'bbox' every visible joint has both coordinates in [0, 1], a
\* coordinate being 0 on an axis where all visible joints coincide, and
\* every invisible joint has the coordinates it was given.
C16_BBoxInUnitSquare ==
    Normalized("bbox") =>
        /\ \A j \in Visible : \A axis \in {1, 2} :
              /\ InUnit(result.value[j][axis])
              /\ Coincide(axis) => result.value[j][axis].num = 0
        /\ \A j \in Hidden : \A axis \in {1, 2} :
              result.value[j][axis] = Given(keypoint_data.coordinates[j][axis])

\* Joints in one column, one of them hidden: x has no extent, y has.
C16_Witness ==
    /\ Normalized("bbox")
    /\ Hidden # {}
    /\ Coincide(1)
    /\ \E j \in Visible : /\ result.value[j][2].num > 0
                          /\ result.value[j][2].num < result.value[j][2].den
    /\ \E j \in Visible : result.value[j][2].num = result.value[j][2].den

AHipHidden ==
    \/ KEYPOINT_INDICES("Left Hip") \in Hidden
    \/ KEYPOINT_INDICES("Right Hip") \in Hidden

\* C17: under 'hip_center' the coordinates of all 24 joints come back as
\* they were given whenever the left or the right hip is invisible.
C17_HipCenterSkipped ==
    (Normalized("hip_center") /\ AHipHidden) =>
        /\ DOMAIN result.value = 0..23
        /\ \A j \in 0..23 : \A axis \in {1, 2} :
              result.value[j][axis] = Given(keypoint_data.coordinates[j][axis])

\* The right hip hidden, the left hip and every other joint visible, the
\* joints not all at one place.
C17_Witness ==
    /\ Normalized("hip_center")
    /\ Hidden = {KEYPOINT_INDICES("Right Hip")}
    /\ ~Coincide(1)

TripletOf(t) ==
    {KEYPOINT_INDICES(angle_definitions[t][k]) : k \in 1..3}

\* C18: extract_joint_angles gives 10 values, the t-th for the t-th triplet
\* of angle_definitions: the angle at its middle joint when its three
\* joints are visible, and 0.0 when one of them is not, whatever the
\* coordinates of the joints.
C18_TenAnglesZeroWhenHidden ==
    result.fn = "extract_joint_angles" =>
        /\ Len(result.value) = 10
        /\ Len(angle_definitions) = 10
        /\ \A t \in 1..10 :
              IF TripletOf(t) \cap Hidden # {}
              THEN result.value[t] = Zero
              ELSE result.value[t] =
                     calc_angle(
                       keypoint_data.coordinates[KEYPOINT_INDICES(angle_definitions[t][1])],
                       keypoint_data.coordinates[KEYPOINT_INDICES(angle_definitions[t][2])],
                       keypoint_data.coordinates[KEYPOINT_INDICES(angle_definitions[t][3])])

\* The left knee hidden: the left knee angle and the left hip angle are
\* 0.0, the right knee angle is computed.
C18_Witness ==
    /\ result.fn = "extract_joint_angles"
    /\ Hidden = {KEYPOINT_INDICES("Left Knee")}
    /\ result.value[1] = Zero
    /\ result.value[7] = Zero
    /\ result.value[2] # Zero
    /\ ~Coincide(1)

BBoxCoords ==
    normalize_coordinates(keypoint_data.coordinates, keypoint_data.visibility, "bbox")

\* C19: extract_features gives 48 values for 'coordinates', 10 for 'angles'
\* and 58 for 'hybrid', the 48 bbox-normalized coordinates followed by the
\* 10 angles; for any other feature_type it raises and gives no vector.
C19_FeatureLengths ==
    result.fn = "extract_features" =>
        /\ result.arg = "coordinates" =>
              /\ result.raised = "no"
              /\ Len(result.value) = 48
              /\ result.value = Flatten(BBoxCoords)
        /\ result.arg = "angles" =>
              /\ result.raised = "no"
              /\ Len(result.value) = 10
        /\ result.arg = "hybrid" =>
              /\ result.raised = "no"
              /\ Len(result.value) = 58
              /\ SubSeq(result.value, 1, 48) = Flatten(BBoxCoords)
              /\ SubSeq(result.value, 49, 58)
                    = extract_joint_angles(BBoxCoords, keypoint_data.visibility)
        /\ result.arg \notin {"coordinates", "angles", "hybrid"} =>
              /\ result.raised = "ValueError"
              /\ result.value = <<>>

\* A hybrid vector of a pose with two joints hidden.
C19_Witness ==
    /\ result.fn = "extract_features"
    /\ result.arg = "hybrid"
    /\ Len(result.value) = 58
    /\ Cardinality(Hidden) = 2
    /\ ~Coincide(1)

(***************************************************************************)
(* Claims about the visibility threshold of create_dataset.                *)
(***************************************************************************)
\* The views the loops visit in a sample of a known class.
VisitsOf(s) ==
    IF samples[s].exercise_type \in DOMAIN exercise_id_map
    THEN Visits(frames_to_use(samples[s], use_all_frames), use_all_views, 0)
    ELSE <<>>
VisibleAt(s, visit) == samples[s].frames[visit.frame_idx + 1].keypoints[visit.view]

\* The visits made so far, as (sample, position) pairs, by visible count.
Visited(low) ==
    {v \in UNION {{<<s, p>> : p \in 1..Len(VisitsOf(s))} : s \in 1..next_sample} :
        (VisibleAt(v[1], VisitsOf(v[1])[v[2]]) < 12) = low}
RowsOf(s, visit) ==
    {r \in 1..Len(X_list) :
        /\ metadata_list[r].file_name = samples[s].file_name
        /\ metadata_list[r].frame_idx = visit.frame_idx
        /\ metadata_list[r].view = visit.view}

\* C20: every row create_dataset has emitted is of a view with at least 12
\* visible keypoints; a visited view with fewer gives no row and adds one to
\* skipped_low_visibility, so the counter is the number of such views
\* visited, and every other visited view gives one row.
C20_VisibilityThreshold ==
    /\ \A r \in 1..Len(X_list) : X_list[r].visible >= 12
    /\ skipped_low_visibility = Cardinality(Visited(TRUE))
    /\ processed = Cardinality(Visited(FALSE))
    /\ Len(X_list) = processed
    /\ \A v \in Visited(TRUE) : RowsOf(v[1], VisitsOf(v[1])[v[2]]) = {}
    /\ \A v \in Visited(FALSE) :
          Cardinality(RowsOf(v[1], VisitsOf(v[1])[v[2]])) = 1

\* A frame of which one view shows 11 keypoints and the other 12: the first
\* is counted as skipped, the second gives a row.
C20_Witness ==
    /\ created = "returned"
    /\ skipped_low_visibility >= 1
    /\ \E r \in 1..Len(X_list) : X_list[r].visible = 12
    /\ \E v \in Visited(TRUE) : \E w \in Visited(FALSE) :
          /\ v[1] = w[1]
          /\ VisitsOf(v[1])[v[2]].frame_idx = VisitsOf(w[1])[w[2]].frame_idx

(***************************************************************************)
(* Claims about parse_keypoints_from_pts.                                  *)
(***************************************************************************)
Parsed == result.fn = "parse_keypoints_from_pts"

\* The joints whose name is a key of pts with 'x' and 'y' both there and
\* neither of them null.
GivenJoints ==
    {j \in Joints :
        /\ KEYPOINT_NAMES[j + 1] \in DOMAIN pts
        /\ pts[KEYPOINT_NAMES[j + 1]].json = "object"
        /\ pts[KEYPOINT_NAMES[j + 1]].x.json = "number"
        /\ pts[KEYPOINT_NAMES[j + 1]].y.json = "number"}

KnownPts == [k \in DOMAIN pts \cap Range(KEYPOINT_NAMES) |-> pts[k]]

\* C21: parse_keypoints_from_pts gives 24 joints in the order of
\* KEYPOINT_NAMES; a joint is visible exactly when its name is a key of pts
\* with both x and y present and not null, and then has the coordinate
\* (x, y); every other joint has the coordinate (0, 0) and is not visible;
\* the keys of pts that are not keypoint names change nothing.
C21_KeypointsFromPts ==
    Parsed =>
        /\ DOMAIN keypoint_data.coordinates = 0..23
        /\ DOMAIN keypoint_data.visibility = 0..23
        /\ \A j \in 0..23 :
              IF j \in GivenJoints
              THEN /\ keypoint_data.visibility[j] = 1
                   /\ keypoint_data.coordinates[j]
                         = << pts[KEYPOINT_NAMES[j + 1]].x.value,
                              pts[KEYPOINT_NAMES[j + 1]].y.value >>
              ELSE /\ keypoint_data.visibility[j] = 0
                   /\ keypoint_data.coordinates[j] = <<0, 0>>
        /\ keypoint_data = parse_keypoints_from_pts(KnownPts)

\* A pts with a key that is no keypoint name, the nose with a null y (not
\* visible), and the left shoulder with its two numbers (visible).
C21_Witness ==
    /\ Parsed
    /\ {OtherKey, "Nose"} \subseteq DOMAIN pts
    /\ pts["Nose"] = Object(Number(7), Null)
    /\ keypoint_data.visibility[KEYPOINT_INDICES("Nose")] = 0
    /\ keypoint_data.visibility[KEYPOINT_INDICES("Left Shoulder")] = 1
    /\ keypoint_data.coordinates[KEYPOINT_INDICES("Left Shoulder")] # <<0, 0>>

(***************************************************************************)
(* Claims about the matcher of the pose scripts.                           *)
(***************************************************************************)
\* The 3D files named 3D_<action>_<actor>_<frame>.json for the key of the
\* k-th 2D file, in whatever directory under the 3D root.
NamedAnywhere(k) ==
    {f \in files_3d : /\ f.action = files_2d[k].action
                      /\ f.actor = files_2d[k].actor
                      /\ f.frame = files_2d[k].frame}

\* What the order 'direct path, else scan of the directories' resolves to.
DirectThenScan(k) ==
    IF DirectPath(files_2d[k].action, files_2d[k].actor, files_2d[k].frame) # {}
    THEN DirectPath(files_2d[k].action, files_2d[k].actor, files_2d[k].frame)
    ELSE NamedAnywhere(k)

Keyed == {k \in 1..next_2d : Name2D(files_2d[k]) \in Accepted2D}

\* C22: the 3D file paired with a 2D record is the file at the direct path
\* of its key when that exists, and otherwise a file of that name in some
\* directory under the 3D root; a 2D record is 'not matched' only when no
\* directory under the 3D root holds a file of that name.
C22_DirectThenScan ==
    /\ \A r \in Rows : \E k \in Keyed :
          /\ Name2D(files_2d[k]) = data_2d[r].src
          /\ data_3d[r].src \in {Path3D(f) : f \in DirectThenScan(k)}
    /\ program = "process_dataset" =>
          skipped_3d_not_found = Cardinality({k \in Keyed : NamedAnywhere(k) = {}})
    /\ program = "preprocess_data" =>
          \A k \in Keyed :
              (DirectThenScan(k) # {} /\ \A f \in DirectThenScan(k) : f.ok)
                  => Name2D(files_2d[k]) \in Paired2D

(***************************************************************************)
(* Claims about normalize_coordinates on its own output.                   *)
(***************************************************************************)
\* a and b are the same number.
SameValue(a, b) ==
    /\ (a.num > 0) = (b.num > 0)
    /\ (a.num < 0) = (b.num < 0)
    /\ a.num * a.num * b.den * b.den * b.root = b.num * b.num * a.den * a.den * a.root

SameArray(v, w) ==
    /\ DOMAIN v = Joints
    /\ DOMAIN w = Joints
    /\ \A j \in Joints : \A axis \in {1, 2} : SameValue(v[j][axis], w[j][axis])

NormalizedAgain(method) == result.fn = "normalize_again" /\ result.arg = method

HipsCoincide ==
    keypoint_data.coordinates[KEYPOINT_INDICES("Left Hip")]
        = keypoint_data.coordinates[KEYPOINT_INDICES("Right Hip")]

\* C23: for 'bbox' and for 'hip_center', normalize_coordinates called on its
\* own output with the same visibility mask gives that output again, joint
\* by joint and coordinate by coordinate, also when an axis has no extent
\* and when the two hips are at one place.  (The first output is the array
\* the call on the given coordinates returned.)
C23_Idempotent ==
    \A method \in {"bbox", "hip_center"} :
        NormalizedAgain(method) =>
            /\ SameArray(result.first, result.value)
            /\ SameArray(result.again, result.first)

\* 'hip_center' twice on a pose with a hidden joint, the two hips visible
\* at one place and a visible joint elsewhere.
C23_Witness ==
    /\ NormalizedAgain("hip_center")
    /\ Hidden # {}
    /\ BothHipsVisible(keypoint_data.visibility)
    /\ HipsCoincide
    /\ \E j \in Visible : result.again[j][2].num # 0

(***************************************************************************)
(* Claims about the angle of collinear joints.                             *)
(***************************************************************************)
AnglesExtracted == result.fn = "extract_joint_angles"

PointAt(t, k) == keypoint_data.coordinates[KEYPOINT_INDICES(angle_definitions[t][k])]

\* The three joints of the triplet lie on one line.
Collinear(t) ==
    (PointAt(t, 1)[1] - PointAt(t, 2)[1]) * (PointAt(t, 3)[2] - PointAt(t, 2)[2])
        = (PointAt(t, 1)[2] - PointAt(t, 2)[2]) * (PointAt(t, 3)[1] - PointAt(t, 2)[1])

OnLine == {t \in 1..Len(angle_definitions) : TripletOf(t) \cap Hidden = {} /\ Collinear(t)}

\* The middle joint is at the place of one of the other two.
AtMiddle(t) == PointAt(t, 2) \in {PointAt(t, 1), PointAt(t, 3)}

InInterval(x, a, b) == (a <= x /\ x <= b) \/ (b <= x /\ x <= a)

\* The middle joint of a triplet on a line lies between the other two.
Between(t) ==
    /\ InInterval(PointAt(t, 2)[1], PointAt(t, 1)[1], PointAt(t, 3)[1])
    /\ InInterval(PointAt(t, 2)[2], PointAt(t, 1)[2], PointAt(t, 3)[2])

\* The cosine of the t-th angle returned, from the points it was computed of.
CosineOf(t) ==
    cos_angle(result.value[t].arccos[1], result.value[t].arccos[2],
              result.value[t].arccos[3])

\* The cosine is d / (d + 1e-8) or -d / (d + 1e-8) for a d > 0: the angle is
\* 0 or pi, as near as the 1e-8 of the denominator lets it be.
ZeroOrPi(c) == c.norms2 > 0 /\ c.dot * c.dot = c.norms2

\* C24 as stated: the angle of every visible triplet on one line is 0 or
\* pi, also when two of its three points are at one place.
C24_Original ==
    AnglesExtracted => \A t \in OnLine : ZeroOrPi(CosineOf(t))

\* C24: the angle of a visible triplet on one line whose middle joint is at
\* the place of neither of the other two is pi when the middle joint lies
\* between them and 0 when it does not (so also when the two outer joints
\* are at one place), as near as the 1e-8 in the denominator of the cosine
\* lets it be; when the middle joint is at the place of one of the other
\* two the cosine is 0 / (0 + 1e-8) and the angle is pi / 2.
C24_CollinearAngles ==
    AnglesExtracted =>
        \A t \in OnLine :
            /\ result.value[t] = calc_angle(PointAt(t, 1), PointAt(t, 2), PointAt(t, 3))
            /\ IF AtMiddle(t)
               THEN CosineOf(t).dot = 0 /\ CosineOf(t).norms2 = 0
               ELSE /\ ZeroOrPi(CosineOf(t))
                    /\ (CosineOf(t).dot < 0) = Between(t)

\* A pose in one column, all joints visible: the left knee at the place of
\* the left hip (pi / 2), the left elbow between shoulder and wrist (pi),
\* the two hips at one place away from the waist (0).
C24_Witness ==
    /\ AnglesExtracted
    /\ Hidden = {}
    /\ OnLine = 1..10
    /\ AtMiddle(1)
    /\ ~AtMiddle(3) /\ Between(3)
    /\ ~AtMiddle(10) /\ PointAt(10, 1) = PointAt(10, 3)

(***************************************************************************)
(* Claims about the scale of 'hip_center'.                                 *)
(***************************************************************************)
\* 1 / 1e-6, the threshold of line 374.
EpsilonInverse == 1000000

LeftHip == keypoint_data.coordinates[KEYPOINT_INDICES("Left Hip")]
RightHip == keypoint_data.coordinates[KEYPOINT_INDICES("Right Hip")]

\* Twice the offset of a coordinate from the midpoint of the hips.
TwiceOffset(j, axis) ==
    2 * keypoint_data.coordinates[j][axis] - LeftHip[axis] - RightHip[axis]

\* The square of the distance of the two hips.
HipDistance2 ==
    (RightHip[1] - LeftHip[1]) * (RightHip[1] - LeftHip[1])
    + (RightHip[2] - LeftHip[2]) * (RightHip[2] - LeftHip[2])

HipCentred ==
    /\ Normalized("hip_center")
    /\ BothHipsVisible(keypoint_data.visibility)

HiddenUnchanged ==
    \A j \in Hidden : \A axis \in {1, 2} :
        result.value[j][axis] = Given(keypoint_data.coordinates[j][axis])

\* C25 as stated: with both hips visible every visible joint is mapped to
\* (coordinate - hip midpoint) / scale, scale being the distance of the hips
\* and 1e-6 when that distance is below 1e-6; invisible joints are unchanged.
C25_Original ==
    HipCentred =>
        /\ \A j \in Visible : \A axis \in {1, 2} :
              IF HipDistance2 = 0
              THEN /\ result.value[j][axis].root = 1
                   /\ 2 * result.value[j][axis].num
                         = TwiceOffset(j, axis) * EpsilonInverse * result.value[j][axis].den
              ELSE SameValue(result.value[j][axis],
                             Value(TwiceOffset(j, axis), 2, HipDistance2))
        /\ HiddenUnchanged

\* C25: with both hips visible every visible joint is mapped to
\* (coordinate - hip midpoint) / scale, scale being the distance of the two
\* hips, and 1.0 when that distance is below 1e-6: the joints are then moved
\* to the hip midpoint and not scaled; invisible joints are unchanged.
C25_HipScale ==
    HipCentred =>
        /\ \A j \in Visible : \A axis \in {1, 2} :
              SameValue(result.value[j][axis],
                        Value(TwiceOffset(j, axis), 2,
                              IF HipDistance2 = 0 THEN 1 ELSE HipDistance2))
        /\ HiddenUnchanged

\* The two hips visible at one place, a visible joint elsewhere and a joint
\* hidden.
C25_Witness ==
    /\ HipCentred
    /\ HipDistance2 = 0
    /\ Hidden # {}
    /\ \E j \in Visible : TwiceOffset(j, 2) # 0 /\ result.value[j][2].num # 0

(***************************************************************************)
(* Claims about the views and frames create_dataset uses.                  *)
(***************************************************************************)
\* The frame a row of the gathered lists was taken of.
FrameOfRow(r) ==
    samples[metadata_list[r].file_name].frames[metadata_list[r].frame_idx + 1]

\* C26: with use_all_views false every row comes from the preferred view, a
\* frame whose preferred view is not active gives no row, and no frame
\* gives two rows; with use_all_frames false every row comes from the
\* first frame of its file.
C26_PreferredViewOnly ==
    /\ ~use_all_views =>
          /\ \A r \in 1..Len(metadata_list) :
                /\ metadata_list[r].view = preferred_view
                /\ preferred_view \in Range(FrameOfRow(r).active_views)
          /\ \A r1, r2 \in 1..Len(metadata_list) :
                (/\ metadata_list[r1].file_name = metadata_list[r2].file_name
                 /\ metadata_list[r1].frame_idx = metadata_list[r2].frame_idx)
                    => r1 = r2
    /\ ~use_all_frames =>
          \A r \in 1..Len(metadata_list) : metadata_list[r].frame_idx = 0

(***************************************************************************)
(* Claims about the loop of process_dataset.                               *)
(***************************************************************************)
\* The 2D files consumed so far whose parse succeeds, and among them those
\* whose 3D file exists at the path of their key.
Parsed2D == {k \in 1..next_2d : files_2d[k].ok /\ files_2d[k].joints = NUM_JOINTS
                                               /\ files_2d[k].parts >= 4}
At3D(k) == DirectPath(files_2d[k].action, files_2d[k].actor, files_2d[k].frame)
Located == {k \in Parsed2D : At3D(k) # {}}

\* C27: at every step of the loop of process_dataset data_2d and data_3d
\* are as long as matched counts; row i of the two comes from a 2D file and
\* from the 3D file of the same (action, actor, frame); every 2D file
\* consumed has added one to exactly one of matched, skipped_2d,
\* skipped_3d_not_found and skipped_3d_parse; and the outcome of a 3D parse
\* is recorded for those 2D files only that parsed.
C27_LoopInvariant ==
    program = "process_dataset" =>
        /\ Len(data_2d) = matched
        /\ Len(data_3d) = matched
        /\ \A r \in Rows :
              /\ data_2d[r].kind = "2d"
              /\ data_3d[r].kind = "3d"
              /\ data_3d[r].src.folder = <<data_2d[r].action, data_2d[r].actor>>
              /\ data_3d[r].src.frame = data_2d[r].frame
              /\ \E k \in Located : /\ Name2D(files_2d[k]) = data_2d[r].src
                                    /\ data_3d[r].src \in {Path3D(f) : f \in At3D(k)}
        /\ matched + skipped_2d + skipped_3d_not_found + skipped_3d_parse = next_2d
        /\ skipped_2d = next_2d - Cardinality(Parsed2D)
        /\ skipped_3d_not_found = Cardinality(Parsed2D \ Located)
        /\ skipped_3d_parse = Cardinality({k \in Located : At3D(k) \cap Valid3D = {}})
        /\ matched = Cardinality({k \in Located : At3D(k) \cap Valid3D # {}})

\* In the loop, after a 2D file that was paired and one whose 3D file did
\* not parse.
C27_Witness ==
    /\ program = "process_dataset"
    /\ next_2d = 2
    /\ matched = 1
    /\ skipped_3d_parse = 1
    /\ pose_result = "running"

(***************************************************************************)
(* Claims about the labels of the rows of create_dataset.                  *)
(***************************************************************************)
\* The parsed sample of the file a row was taken of.
SampleOfRow(r) ==
    CHOOSE sample \in Range(samples) : sample.file_name = metadata_list[r].file_name

\* C28: every row create_dataset emits has as y_exercise the id the id map
\* gives the canonical exercise name of its file, and as y_posture 1 when
\* the is_correct of its file is true and 0 when it is not, so the rows of
\* all frames and views of one file have the same two labels; and with the
\* id map built from the target list parse_json_file was given, no parsed
\* sample is skipped as of unknown type.
C28_LabelsOfFile ==
    /\ Len(y_exercise_list) = Len(X_list)
    /\ Len(y_posture_list) = Len(X_list)
    /\ Len(metadata_list) = Len(X_list)
    /\ \A r \in 1..Len(X_list) :
          /\ \E sample \in Range(samples) :
                sample.file_name = metadata_list[r].file_name
          /\ SampleOfRow(r).exercise_type
                = get_english_exercise_name(FileOf(SampleOfRow(r)).exercise)
          /\ y_exercise_list[r] = exercise_id_map[SampleOfRow(r).exercise_type]
          /\ y_posture_list[r] = 1 <=> SampleOfRow(r).is_correct
          /\ y_posture_list[r] \in {0, 1}
    /\ \A r1, r2 \in 1..Len(X_list) :
          metadata_list[r1].file_name = metadata_list[r2].file_name
              => /\ y_exercise_list[r1] = y_exercise_list[r2]
                 /\ y_posture_list[r1] = y_posture_list[r2]
    /\ skipped_unknown_type = 0
    /\ created = "returned" => (y_exercise = y_exercise_list /\ y_posture = y_posture_list)

\* Two rows of the two views of one file with true conditions, and a row of
\* a file with a false condition, of another class.
C28_Witness ==
    /\ created = "returned"
    /\ \E r1, r2, r3 \in 1..Len(X_list) :
          /\ r1 # r2
          /\ metadata_list[r1].file_name = metadata_list[r2].file_name
          /\ metadata_list[r1].view # metadata_list[r2].view
          /\ y_posture[r1] = 1
          /\ y_posture[r3] = 0
          /\ y_exercise[r3] # y_exercise[r1]

(***************************************************************************)
(* C29: early stopping and the best-model checkpoint of the training loop. *)
(***************************************************************************)
\* The best value before pass k of the loop: the largest F1 of the passes
\* before it, and the 0 that best_val_f1 starts from.
BestBefore(k) ==
    CHOOSE b \in {0} \cup {history[i] : i \in 1..(k - 1)} :
        \A c \in {0} \cup {history[i] : i \in 1..(k - 1)} : c <= b

\* Pass k failed to exceed the best value so far.
Failed(k) == history[k] <= BestBefore(k)

\* The number of consecutive failed passes at the end of the history.
TrailingFailures ==
    CHOOSE n \in 0..Len(history) :
        /\ \A k \in (Len(history) - n + 1)..Len(history) : Failed(k)
        /\ (n = Len(history) \/ ~Failed(Len(history) - n))

\* The 0-based index of the first epoch that reached the largest F1 of the run.
FirstBestEpoch ==
    CHOOSE k \in 1..Len(history) :
        /\ \A i \in 1..Len(history) : history[i] <= history[k]
        /\ \A i \in 1..(k - 1) : history[i] < history[k]

AtMostEpochs == Len(history) <= epochs

StopsExactlyOnPatience == stopped <=> (TrailingFailures >= early_stopping)

LoadTried == checkpoint # NotLoaded \/ raised # ""

\* C29: the training loop runs at most 'epochs' epochs and stops early exactly
\* when the validation F1 has failed to exceed the best value so far for
\* 'early_stopping' consecutive epochs; whatever the per-epoch F1 values, when
\* the loop ends a best-model checkpoint has been saved by it, and the
\* checkpoint loaded afterwards is the one of the first epoch that reached the
\* largest validation F1.
C29_BestCheckpoint ==
    /\ AtMostEpochs
    /\ StopsExactlyOnPatience
    /\ LoopEnded => best_model_pth.run = "this"
    /\ LoadTried =>
          /\ raised = ""
          /\ checkpoint.run = "this"
          /\ checkpoint.epoch + 1 = FirstBestEpoch
          /\ checkpoint.f1 = history[FirstBestEpoch]

\* What the loop does guarantee: the bound, the stopping rule, and the
\* checkpoint of the first best epoch once some epoch had an F1 above 0.
SomeEpochImproved == \E k \in 1..Len(history) : history[k] > 0

BestCheckpointWhenImproved ==
    /\ AtMostEpochs
    /\ StopsExactlyOnPatience
    /\ patience_counter = TrailingFailures
    /\ (LoopEnded /\ SomeEpochImproved) => best_model_pth.run = "this"
    /\ (LoadTried /\ SomeEpochImproved) =>
          /\ raised = ""
          /\ checkpoint = Checkpoint("this", FirstBestEpoch - 1, history[FirstBestEpoch])
    /\ (LoadTried /\ ~SomeEpochImproved) =>
          \/ raised = "FileNotFoundError"
          \/ checkpoint.run = "earlier"

\* The run in which no epoch has an F1 above 0 and no earlier file exists.
NoCheckpointToLoad ==
    /\ Len(history) > 0
    /\ stopped
    /\ raised = "FileNotFoundError"

\* The run that loads the checkpoint an earlier run left in output_dir.
StaleCheckpointLoaded ==
    /\ Len(history) > 0
    /\ checkpoint.run = "earlier"

(***************************************************************************)
(* C30: the active views of a parsed frame.                                *)
(***************************************************************************)
\* The position of a view name in view1..view5.
ViewOrder(v) == CHOOSE k \in 1..Len(ViewNames) : ViewNames[k] = v

\* The frame objects of the json files that main has parsed so far.
FramesRead ==
    UNION { Range(all_json_files[k].frames) : k \in 1..next_json }

\* The view has active == "Yes" and a pts object in the frame object.
YesWithPts(frame, v) ==
    /\ v \in DOMAIN frame
    /\ frame[v].active = "Yes"
    /\ frame[v].has_pts

ViewsInOrder(active_views) ==
    \A i, j \in 1..Len(active_views) :
        i < j => ViewOrder(active_views[i]) < ViewOrder(active_views[j])

KeysAreActiveViews(frame_data) ==
    /\ Range(frame_data.active_views) = DOMAIN frame_data.keypoints
    /\ ViewsInOrder(frame_data.active_views)

\* The frames that a parsed sample holds are those frames of its file, in
\* the order of the file, in which some view has active == "Yes" and pts.
KeptFrames(file) ==
    SelectSeq(file.frames, LAMBDA f : \E v \in Range(ViewNames) : YesWithPts(f, v))


\* C30: parse_frame gives a FrameData whose active_views are exactly the keys
\* of its keypoints, in view1..view5 order, and hold a view if and only if the
\* view has active == "Yes" and a pts object; so create_dataset never counts a
\* 'no view' skip, and the frames that parse_json_file keeps have at least
\* one active view each.
C30_ActiveViews ==
    /\ \A frame \in FramesRead :
          /\ KeysAreActiveViews(parse_frame(frame))
          /\ \A v \in Range(ViewNames) :
                v \in Range(parse_frame(frame).active_views) <=> YesWithPts(frame, v)
    /\ \A i \in 1..Len(samples) :
          /\ Len(samples[i].frames) = Len(KeptFrames(FileOf(samples[i])))
          /\ \A n \in 1..Len(samples[i].frames) :
                /\ samples[i].frames[n].active_views # <<>>
                /\ KeysAreActiveViews(samples[i].frames[n])
                /\ \A v \in Range(ViewNames) :
                      v \in DOMAIN samples[i].frames[n].keypoints
                          <=> YesWithPts(KeptFrames(FileOf(samples[i]))[n], v)
    /\ skipped_no_view = 0

\* create_dataset has ended over a sample of a file whose first frame has no
\* active view and was dropped, and whose second frame has view2 with
\* active == "Yes" but no pts between the active view1 and view3.
C30_Witness ==
    /\ created = "returned"
    /\ use_all_views
    /\ \E i \in 1..Len(samples) :
          /\ Len(FileOf(samples[i]).frames) = 2
          /\ Len(samples[i].frames) = 1
          /\ samples[i].frames[1].active_views = <<"view1", "view3">>
          /\ \E r \in 1..Len(metadata_list) :
                /\ metadata_list[r].file_name = samples[i].file_name
                /\ metadata_list[r].view = "view3"

====
